---- MODULE Spec2Model ----
(***************************************************************************)
(* Model of the Secure Policy Language runtime: the PolicyEngine of        *)
(* backend/execution/policy_engine.py, the code generator of               *)
(* backend/compiler/code_generator.py and the engine handling of           *)
(* backend/api/routes.py.                                                  *)
(*                                                                         *)
(* Strings that the code inspects character by character (resource names   *)
(* and resource specs) are sequences of one-character strings.  Condition  *)
(* texts are sequences of tokens, the text being the tokens joined by      *)
(* single spaces.  Python values are tagged records (Value).               *)
(***************************************************************************)
EXTENDS Integers, Sequences, FiniteSets, TLC

VARIABLES
    engine,        \* the PolicyEngine object: policy, roles, users, resources, policies
    engine0,       \* the engine as __init__ left it (history variable)
    request,       \* arguments of the last call made on the engine
    result,        \* what the last call returned, or the exception it raised
    program,       \* AST handed to a compile request (sequence of statement nodes)
    generated,     \* what CodeGenerator.generate returned for it, and the engine built from it
    db,            \* rows of the compiled_policies table, oldest first
    current_engine,\* routes.py module global _current_engine
    cpc,           \* position of the compile request inside clear_and_populate_database
    compiles,      \* number of compile requests started
    kpc,           \* position of each check-access request
    klocal,        \* locals of each check-access request
    lexer,         \* routes.py module global lexer (SPLLexer): its PLY lexer's lineno
    parser,        \* routes.py module global parser (SPLParser): its lexer's lineno, errors
    compiled       \* what compile requests answered (history variable)

vars == <<engine, engine0, request, result, program, generated,
          db, current_engine, cpc, compiles, kpc, klocal,
          lexer, parser, compiled>>

engineVars == <<engine, engine0, request, result>>
genVars == <<program, generated>>
swapVars == <<db, current_engine, cpc, compiles, kpc, klocal>>
frontVars == <<lexer, parser, compiled>>

-----------------------------------------------------------------------------
(* Bounds *)

MaxPolicies == 2
MaxStatements == 3
MaxCompiles == 2
MaxChecks == 2
MaxRows == 3
MaxRequests == 2

-----------------------------------------------------------------------------
(* Python values *)

VStr(s) == [t |-> "s", s |-> s, n |-> 0]
VNum(n) == [t |-> "n", s |-> "", n |-> n]
VBool(b) == [t |-> "b", s |-> "", n |-> IF b THEN 1 ELSE 0]
\* dict / date objects; n is the truth value of the object
VObj(name, truthy) == [t |-> "o", s |-> name, n |-> IF truthy THEN 1 ELSE 0]
VTrue == VBool(TRUE)
VFalse == VBool(FALSE)

\* bool(v)
Truthy(v) ==
    CASE v.t = "s" -> v.s # ""
      [] v.t = "n" -> v.n # 0
      [] v.t = "b" -> v.n # 0
      [] OTHER -> v.n # 0

IsNumeric(v) == v.t \in {"n", "b"}

\* the strings of the model in code-point order, for str < str
StrOrder == <<"", "/", "/data", "Admin", "GET", "Ghost", "Guest", "Monday",
              "a", "alice", "bob", "carol", "database", "dave", "unknown", "x">>

StrRank(s) ==
    IF \E i \in 1..Len(StrOrder) : StrOrder[i] = s
    THEN CHOOSE i \in 1..Len(StrOrder) : StrOrder[i] = s
    ELSE 0

PyEq(a, b) ==
    \/ IsNumeric(a) /\ IsNumeric(b) /\ a.n = b.n
    \/ a.t = "s" /\ b.t = "s" /\ a.s = b.s
    \/ a.t = "o" /\ b.t = "o" /\ a.s = b.s

\* a < b for orderable operands
PyLess(a, b) ==
    IF IsNumeric(a) THEN a.n < b.n ELSE StrRank(a.s) < StrRank(b.s)

Orderable(a, b) ==
    \/ IsNumeric(a) /\ IsNumeric(b)
    \/ a.t = "s" /\ b.t = "s"

\* one comparison of a chain: "T", "F", or "TypeError"
Compare(op, a, b) ==
    CASE op = "==" -> IF PyEq(a, b) THEN "T" ELSE "F"
      [] op = "!=" -> IF PyEq(a, b) THEN "F" ELSE "T"
      [] ~Orderable(a, b) -> "TypeError"
      [] op = "<" -> IF PyLess(a, b) THEN "T" ELSE "F"
      [] op = ">" -> IF PyLess(b, a) THEN "T" ELSE "F"
      [] op = "<=" -> IF PyLess(b, a) THEN "F" ELSE "T"
      [] OTHER -> IF PyLess(a, b) THEN "F" ELSE "T"

-----------------------------------------------------------------------------
(* Condition text: tokens of the IR's condition string *)

Tok(k, a, b, n) == [k |-> k, a |-> a, b |-> b, n |-> n]
Attr(o, f) == Tok("attr", o, f, 0)     \* o.f
Str(s) == Tok("str", s, "", 0)         \* "s"
Num(n) == Tok("num", "", "", n)        \* n
Name(x) == Tok("name", x, "", 0)       \* bare word: true, false, True, Admin ...
Op(o) == Tok("op", o, "", 0)           \* == != < > <= >=
Kw(w) == Tok("kw", w, "", 0)           \* AND OR NOT
LP == Tok("lp", "(", "", 0)
RP == Tok("rp", ")", "", 0)

\* tokens of the Python expression handed to eval()
PyVal(v) == [k |-> "val", a |-> "", v |-> v]
PyName(x) == [k |-> "name", a |-> x, v |-> VFalse]
PySym(k, a) == [k |-> k, a |-> a, v |-> VFalse]

-----------------------------------------------------------------------------
(* PolicyEngine._evaluate_condition *)

\* replace_attr: the text that re.sub puts in place of obj.attr
replace_attr(tok, context) ==
    IF tok.a \notin DOMAIN context THEN PyVal(VFalse)
    ELSE IF tok.b \notin DOMAIN context[tok.a] THEN PyVal(VFalse)
    ELSE PyVal(context[tok.a][tok.b])

\* The textual rewriting of one token at position i of a condition of n tokens:
\* attribute substitution outside quotes, ' true' -> ' True', ' false' -> ' False',
\* ' AND ' -> ' and ', ' OR ' -> ' or ', 'NOT ' -> 'not '.
RewriteToken(tok, i, n, context) ==
    CASE tok.k = "attr" -> replace_attr(tok, context)
      [] tok.k = "str" -> PyVal(VStr(tok.a))
      [] tok.k = "num" -> PyVal(VNum(tok.n))
      [] tok.k = "name" ->
            IF tok.a = "True" \/ (tok.a = "true" /\ i > 1) THEN PyVal(VTrue)
            ELSE IF tok.a = "False" \/ (tok.a = "false" /\ i > 1) THEN PyVal(VFalse)
            ELSE PyName(tok.a)
      [] tok.k = "kw" ->
            IF tok.a = "AND" /\ i > 1 /\ i < n THEN PySym("and", "and")
            ELSE IF tok.a = "OR" /\ i > 1 /\ i < n THEN PySym("or", "or")
            ELSE IF tok.a = "NOT" /\ i < n THEN PySym("not", "not")
            ELSE PyName(tok.a)
      [] tok.k = "op" -> PySym("op", tok.a)
      [] OTHER -> PySym(tok.k, tok.a)

\* eval_str as Python tokens
EvalStr(condition, context) ==
    [i \in 1..Len(condition) |->
        RewriteToken(condition[i], i, Len(condition), context)]

\* Result of parsing-and-evaluating a sub-expression starting at a position:
\* syn: the text parses so far; i: next position; err: evaluating it raises
\* (NameError, TypeError); v: its value when it does not raise.
PR(syn, i, err, v) == [syn |-> syn, i |-> i, err |-> err, v |-> v]
SyntaxError == PR(FALSE, 0, TRUE, VFalse)

RECURSIVE OrTest(_, _)
RECURSIVE OrTail(_, _)
RECURSIVE AndTest(_, _)
RECURSIVE AndTail(_, _)
RECURSIVE NotTest(_, _)
RECURSIVE Comparison(_, _)
RECURSIVE CompTail(_, _, _, _)
RECURSIVE Atom(_, _)

\* '(' or_test ')' : r is the or_test parsed after the parenthesis
AtomParen(ts, r) ==
    IF r.syn /\ r.i <= Len(ts) /\ ts[r.i].k = "rp"
    THEN PR(TRUE, r.i + 1, r.err, r.v)
    ELSE SyntaxError

\* atom: literal | name | context[..][..] | '(' or_test ')'
Atom(ts, i) ==
    IF i > Len(ts) THEN SyntaxError
    ELSE CASE ts[i].k = "val" -> PR(TRUE, i + 1, FALSE, ts[i].v)
           [] ts[i].k = "name" -> PR(TRUE, i + 1, TRUE, VFalse)
           [] ts[i].k = "lp" -> AtomParen(ts, OrTest(ts, i + 1))
           [] OTHER -> SyntaxError

\* State of a comparison chain after comparing left with the operand r under
\* op: "go" (all true so far), "stop" (one was false: the rest is not
\* evaluated), "err" (an operand or a comparison raised)
ChainState(st, op, left, r) ==
    IF st # "go" THEN st
    ELSE IF r.err THEN "err"
    ELSE IF Compare(op, left, r.v) = "TypeError" THEN "err"
    ELSE IF Compare(op, left, r.v) = "F" THEN "stop"
    ELSE "go"

\* r is the operand parsed after the operator at position i
CompStep(ts, i, left, st, r) ==
    IF ~r.syn THEN SyntaxError
    ELSE CompTail(ts, r.i, r.v, ChainState(st, ts[i].a, left, r))

\* comparison: atom (comp_op atom)*, chained as Python chains it:
\* a op b op c is (a op b) and (b op c)
CompTail(ts, i, left, st) ==
    IF i <= Len(ts) /\ ts[i].k = "op"
    THEN CompStep(ts, i, left, st, Atom(ts, i + 1))
    ELSE PR(TRUE, i, st = "err", VBool(st = "go"))

ComparisonFrom(ts, a) ==
    IF ~a.syn THEN SyntaxError
    ELSE IF a.i <= Len(ts) /\ ts[a.i].k = "op"
    THEN CompTail(ts, a.i, a.v, IF a.err THEN "err" ELSE "go")
    ELSE a

Comparison(ts, i) == ComparisonFrom(ts, Atom(ts, i))

NotOf(r) ==
    IF ~r.syn THEN SyntaxError
    ELSE PR(TRUE, r.i, r.err, VBool(~Truthy(r.v)))

\* not_test: 'not' not_test | comparison
NotTest(ts, i) ==
    IF i <= Len(ts) /\ ts[i].k = "not"
    THEN NotOf(NotTest(ts, i + 1))
    ELSE Comparison(ts, i)

\* l and r : r is evaluated only when l is true
AndOf(l, r) ==
    IF ~r.syn THEN SyntaxError
    ELSE IF l.err THEN PR(TRUE, r.i, TRUE, VFalse)
    ELSE IF ~Truthy(l.v) THEN PR(TRUE, r.i, FALSE, l.v)
    ELSE PR(TRUE, r.i, r.err, r.v)

\* and_test: not_test ('and' not_test)*
AndTail(ts, l) ==
    IF l.syn /\ l.i <= Len(ts) /\ ts[l.i].k = "and"
    THEN AndTail(ts, AndOf(l, NotTest(ts, l.i + 1)))
    ELSE l

AndTest(ts, i) == AndTail(ts, NotTest(ts, i))

\* l or r : r is evaluated only when l is false
OrOf(l, r) ==
    IF ~r.syn THEN SyntaxError
    ELSE IF l.err THEN PR(TRUE, r.i, TRUE, VFalse)
    ELSE IF Truthy(l.v) THEN PR(TRUE, r.i, FALSE, l.v)
    ELSE PR(TRUE, r.i, r.err, r.v)

\* or_test: and_test ('or' and_test)*
OrTail(ts, l) ==
    IF l.syn /\ l.i <= Len(ts) /\ ts[l.i].k = "or"
    THEN OrTail(ts, OrOf(l, AndTest(ts, l.i + 1)))
    ELSE l

OrTest(ts, i) == OrTail(ts, AndTest(ts, i))

EvalOutcome(ts, r) ==
    IF ~r.syn \/ r.i # Len(ts) + 1 \/ r.err
    THEN [raised |-> TRUE, v |-> VFalse]
    ELSE [raised |-> FALSE, v |-> r.v]

\* eval(eval_str, ...): raised is TRUE when eval raises (SyntaxError, NameError,
\* TypeError), otherwise v is the value
PyEval(ts) == EvalOutcome(ts, OrTest(ts, 1))

\* The exception the whole body of _evaluate_condition raises before its
\* except clause catches it ("" when none)
ConditionError(condition, context) ==
    IF PyEval(EvalStr(condition, context)).raised THEN "Exception" ELSE ""

\* _evaluate_condition(condition, context): bool(result), or False from the
\* except clause
BoolOrFalse(r) == IF r.raised THEN FALSE ELSE Truthy(r.v)

evaluate_condition(condition, context) ==
    BoolOrFalse(PyEval(EvalStr(condition, context)))

-----------------------------------------------------------------------------
(* PolicyEngine: construction *)

Range(q) == {q[i] : i \in 1..Len(q)}

\* Name index built by the loops of _index_roles, _index_users and
\* _index_resources: a later entry replaces an earlier one of the same name
IndexByName(entries) ==
    [nm \in {entries[i].name : i \in 1..Len(entries)} |->
        LET last == CHOOSE i \in 1..Len(entries) :
                        /\ entries[i].name = nm
                        /\ \A j \in (i + 1)..Len(entries) : entries[j].name # nm
        IN entries[last]]

index_roles(policy) == IndexByName(policy.roles)
index_users(policy) == IndexByName(policy.users)
index_resources(policy) == IndexByName(policy.resources)
index_policies(policy) == policy.policies

\* compiled_policy.get(...) exists only on a dict; on the JSON array that
\* CodeGenerator produces the first .get raises AttributeError
ConstructorRaises(compiled_policy) == compiled_policy.shape # "dict"

NoEngine == [built |-> FALSE]

\* PolicyEngine(compiled_policy), for a dict
PolicyEngine(compiled_policy) ==
    [built |-> TRUE,
     policy |-> compiled_policy,
     roles |-> index_roles(compiled_policy),
     users |-> index_users(compiled_policy),
     resources |-> index_resources(compiled_policy),
     policies |-> index_policies(compiled_policy)]

-----------------------------------------------------------------------------
(* PolicyEngine._matches_resource and _matches_action *)

\* policy_resource.replace('*', '.*')
RECURSIVE ReplaceStar(_)
ReplaceStar(spec) ==
    IF spec = <<>> THEN <<>>
    ELSE (IF Head(spec) = "*" THEN <<".", "*">> ELSE <<Head(spec)>>)
         \o ReplaceStar(Tail(spec))

\* re.compile fails on an unbalanced parenthesis
ReCompileError(pattern) == \E i \in 1..Len(pattern) : pattern[i] = "("

\* re.match('^pattern$', target) from pattern position i and target position j:
\* '.*' is any run of characters, '.' any one character, anything else itself
RECURSIVE ReMatch(_, _, _, _)
ReMatch(pattern, i, target, j) ==
    IF i > Len(pattern) THEN j > Len(target)
    ELSE IF pattern[i] = "." /\ i < Len(pattern) /\ pattern[i + 1] = "*"
    THEN \E k \in j..(Len(target) + 1) : ReMatch(pattern, i + 2, target, k)
    ELSE IF pattern[i] = "."
    THEN j <= Len(target) /\ ReMatch(pattern, i + 1, target, j + 1)
    ELSE /\ j <= Len(target)
         /\ target[j] = pattern[i]
         /\ ReMatch(pattern, i + 1, target, j + 1)

\* _matches_resource raises re.error: the exact-match shortcut did not return
\* and the pattern does not compile
matches_resource_raises(policy_resource, target_resource) ==
    /\ policy_resource # target_resource
    /\ ReCompileError(ReplaceStar(policy_resource))

\* _matches_resource when it returns
matches_resource(policy_resource, target_resource) ==
    \/ policy_resource = target_resource
    \/ /\ ~ReCompileError(ReplaceStar(policy_resource))
       /\ ReMatch(ReplaceStar(policy_resource), 1, target_resource, 1)

matches_action(policy_actions, target_action) ==
    \/ "*" \in Range(policy_actions)
    \/ target_action \in Range(policy_actions)

-----------------------------------------------------------------------------
(* PolicyEngine.check_access *)

\* the Python string of a character sequence
RECURSIVE JoinChars(_)
JoinChars(chars) ==
    IF chars = <<>> THEN "" ELSE Head(chars) \o JoinChars(Tail(chars))

EmptyDict == [x \in {} |-> ""]

\* d.get(key, default)
Get(d, key, default) == IF key \in DOMAIN d THEN d[key] ELSE default

\* context.get(group, {}) is None for a JSON null group, and None has no .get
ContextRaises(context) ==
    context.time.null \/ context.request.null \/ context.device.null

\* an eval_context whose user.role is the caller's when the caller gives one
EvalContextOfCaller(username, user_role, resource_name, resource, context, now) ==
    [user |-> [name |-> VStr(username), role |-> Get(context.user.f, "role", VStr(user_role))],
     time |-> [hour |-> Get(context.time.f, "hour", VNum(now.hour)),
               minute |-> Get(context.time.f, "minute", VNum(now.minute)),
               day |-> Get(context.time.f, "day", VStr(now.day)),
               date |-> Get(context.time.f, "date", VObj("date", TRUE)),
               weekday |-> Get(context.time.f, "weekday", VNum(now.weekday))],
     request |-> [ip |-> Get(context.request.f, "ip", VStr("unknown")),
                  method |-> Get(context.request.f, "method", VStr("GET")),
                  path |-> Get(context.request.f, "path", VStr("/")),
                  headers |-> Get(context.request.f, "headers", VObj("dict", FALSE)),
                  user_agent |-> Get(context.request.f, "user_agent", VStr("unknown"))],
     device |-> [type |-> Get(context.device.f, "type", VStr("unknown")),
                 trusted |-> Get(context.device.f, "trusted", VFalse),
                 os |-> Get(context.device.f, "os", VStr("unknown")),
                 browser |-> Get(context.device.f, "browser", VStr("unknown")),
                 location |-> Get(context.device.f, "location", VStr("unknown")),
                 id |-> Get(context.device.f, "id", VStr("unknown"))],
     resource |-> [name |-> VStr(JoinChars(resource_name)),
                   path |-> VStr(Get(resource.properties, "path", "")),
                   type |-> VStr(Get(resource.properties, "type", "unknown"))]]

\* eval_context of lines 123-155; now is datetime.now()
EvalContext(username, user_role, resource_name, resource, context, now) ==
    [user |-> [name |-> VStr(username), role |-> VStr(user_role)],
     time |-> [hour |-> Get(context.time.f, "hour", VNum(now.hour)),
               minute |-> Get(context.time.f, "minute", VNum(now.minute)),
               day |-> Get(context.time.f, "day", VStr(now.day)),
               date |-> Get(context.time.f, "date", VObj("date", TRUE)),
               weekday |-> Get(context.time.f, "weekday", VNum(now.weekday))],
     request |-> [ip |-> Get(context.request.f, "ip", VStr("unknown")),
                  method |-> Get(context.request.f, "method", VStr("GET")),
                  path |-> Get(context.request.f, "path", VStr("/")),
                  headers |-> Get(context.request.f, "headers", VObj("dict", FALSE)),
                  user_agent |-> Get(context.request.f, "user_agent", VStr("unknown"))],
     device |-> [type |-> Get(context.device.f, "type", VStr("unknown")),
                 trusted |-> Get(context.device.f, "trusted", VFalse),
                 os |-> Get(context.device.f, "os", VStr("unknown")),
                 browser |-> Get(context.device.f, "browser", VStr("unknown")),
                 location |-> Get(context.device.f, "location", VStr("unknown")),
                 id |-> Get(context.device.f, "id", VStr("unknown"))],
     resource |-> [name |-> VStr(JoinChars(resource_name)),
                   path |-> VStr(Get(resource.properties, "path", "")),
                   type |-> VStr(Get(resource.properties, "type", "unknown"))]]

\* the entry appended to matched_policies
MatchedEntry(policy) ==
    [type |-> policy.type, actions |-> policy.actions,
     resource |-> policy.resource, condition |-> policy.condition]

\* `if policy.get('condition')`: a condition is present and not empty
HasCondition(policy) == policy.condition # <<>>

\* State of the loop over self.policies (lines 167-200): the lists and flags,
\* the exception that left the loop ("" while none), the number of policies
\* the loop has looked at
LoopStart == [matched |-> <<>>, deny_found |-> FALSE, allow_found |-> FALSE,
              exc |-> "", looked |-> 0]

\* one iteration of the loop body for policy
LoopBodySeen(seen, policy, action, resource_name, eval_context) ==
    IF matches_resource_raises(policy.resource, resource_name)
    THEN [seen EXCEPT !.exc = "re.error"]
    ELSE IF ~matches_resource(policy.resource, resource_name) THEN seen
    ELSE IF ~matches_action(policy.actions, action) THEN seen
    ELSE IF HasCondition(policy)
            /\ ~evaluate_condition(policy.condition, eval_context) THEN seen
    ELSE [seen EXCEPT !.matched = Append(@, MatchedEntry(policy)),
                      !.deny_found = @ \/ policy.type = "DENY",
                      !.allow_found = @ \/ policy.type = "ALLOW"]

LoopBody(st, policy, action, resource_name, eval_context) ==
    LoopBodySeen([st EXCEPT !.looked = @ + 1], policy, action, resource_name,
                 eval_context)

RECURSIVE EvaluatePolicies(_, _, _, _, _, _)
EvaluatePolicies(policies, i, st, action, resource_name, eval_context) ==
    IF i > Len(policies) \/ st.exc # "" THEN st
    ELSE EvaluatePolicies(policies, i + 1,
            LoopBody(st, policies[i], action, resource_name, eval_context),
            action, resource_name, eval_context)

NoContext == [none |-> TRUE]

Decision(allowed, reason, decision, matched_policies, context, looked) ==
    [kind |-> "decision", allowed |-> allowed, reason |-> reason,
     decision |-> decision, matched_policies |-> matched_policies,
     context |-> context, looked |-> looked]

Raised(exc, looked) == [kind |-> "raised", exc |-> exc, looked |-> looked]

\* a decision logic that looks for an ALLOW before it looks for a DENY
DecideAllowFirst(st, eval_context) ==
    IF st.allow_found
    THEN Decision(TRUE, "ALLOW policy matched", "ALLOW",
                  st.matched, eval_context, st.looked)
    ELSE IF st.deny_found
    THEN Decision(FALSE, "Explicit DENY policy matched", "DENY",
                  st.matched, eval_context, st.looked)
    ELSE Decision(FALSE, "No matching policies (default deny)", "DENY",
                  st.matched, eval_context, st.looked)

\* Decision logic of lines 202-226
Decide(st, eval_context) ==
    IF st.deny_found
    THEN Decision(FALSE, "Explicit DENY policy matched", "DENY",
                  st.matched, eval_context, st.looked)
    ELSE IF st.allow_found
    THEN Decision(TRUE, "ALLOW policy matched", "ALLOW",
                  st.matched, eval_context, st.looked)
    ELSE Decision(FALSE, "No matching policies (default deny)", "DENY",
                  st.matched, eval_context, st.looked)

\* self.users.get(username): the user entry, or None
UserKnown(self, username) == username \in DOMAIN self.users

\* self.resources.get(resource_name)
ResourceKnown(self, resource_name) == resource_name \in DOMAIN self.resources

\* user.get('properties', {}).get('role') is missing or empty
RoleMissing(user) == Get(user.properties, "role", "") = ""

\* The loop's outcome turned into what check_access returns or raises
Outcome(st, eval_context) ==
    IF st.exc # "" THEN Raised(st.exc, st.looked) ELSE Decide(st, eval_context)

\* Lines 166-226 under the evaluation context built
EvaluateAndDecide(self, action, resource_name, eval_context) ==
    Outcome(EvaluatePolicies(self.policies, 1, LoopStart, action,
                             resource_name, eval_context),
            eval_context)

\* The early return with the decision shifted to ALLOW
EarlyDenyAllows(reason) ==
    Decision(TRUE, reason, "ALLOW", <<>>, NoContext, 0)

\* The early returns of lines 79-106: a DENY decision with no matched policy
\* and no 'context' key, before any policy is looked at
EarlyDeny(reason) ==
    Decision(FALSE, reason, "DENY", <<>>, NoContext, 0)

\* What check_access returns or raises; looked counts the policies examined
CheckAccessReturn(self, username, action, resource_name, context, now) ==
    IF ~UserKnown(self, username) THEN EarlyDeny("User not found")
    ELSE IF ~ResourceKnown(self, resource_name)
    THEN EarlyDeny("Resource not found")
    ELSE IF RoleMissing(self.users[username])
    THEN EarlyDeny("User has no role assigned")
    ELSE IF ContextRaises(context) THEN Raised("AttributeError", 0)
    ELSE EvaluateAndDecide(self, action, resource_name,
             EvalContext(username, self.users[username].properties["role"],
                         resource_name, self.resources[resource_name],
                         context, now))

\* check_access emptying the policy list it has gone through
CheckAccessSelfConsumes(self) == [self EXCEPT !.policies = <<>>]

\* check_access assigns no attribute of self: the object afterwards
CheckAccessSelf(self) == self

-----------------------------------------------------------------------------
(* PolicyEngine.get_user_permissions *)

\* 'user.role' in policy['condition']
MentionsUserRole(condition) ==
    \E i \in 1..Len(condition) :
        condition[i].k = "attr" /\ condition[i].a = "user" /\ condition[i].b = "role"

\* _get_applicable_policies: indices of the policies returned, in order
RECURSIVE ApplicableFrom(_, _)
ApplicableFrom(policies, i) ==
    IF i > Len(policies) THEN <<>>
    ELSE (IF ~HasCondition(policies[i]) \/ MentionsUserRole(policies[i].condition)
          THEN <<policies[i]>> ELSE <<>>)
         \o ApplicableFrom(policies, i + 1)

get_applicable_policies(self, username) == ApplicableFrom(self.policies, 1)

\* self.roles.get(user_role, {}).get('properties', {})
RolePermissions(self, user_role) ==
    IF user_role \in DOMAIN self.roles
    THEN self.roles[user_role].properties
    ELSE EmptyDict

GetUserPermissionsReturn(self, username) ==
    IF ~UserKnown(self, username)
    THEN [kind |-> "error", error |-> "User not found"]
    ELSE [kind |-> "permissions", username |-> username,
          role |-> Get(self.users[username].properties, "role", ""),
          role_permissions |->
              RolePermissions(self, Get(self.users[username].properties, "role", "")),
          applicable_policies |-> get_applicable_policies(self, username)]

\* get_user_permissions assigns no attribute of self: the object afterwards
GetUserPermissionsSelf(self) == self

-----------------------------------------------------------------------------
(* The IRs, requests and clocks the engine is exercised with *)

DB == <<"D", "B">>
DXB == <<"D", "X", "B">>
ZZ == <<"Z", "Z">>

Roles == <<[name |-> "Admin", properties |-> ("can" :> <<"*">>)],
           [name |-> "Guest", properties |-> ("can" :> <<"read">>)]>>

\* alice and bob have defined roles, carol has none, dave's is not a role of the IR
Users == <<[name |-> "alice", properties |-> ("role" :> "Admin")],
           [name |-> "bob", properties |-> ("role" :> "Guest")],
           [name |-> "carol", properties |-> EmptyDict],
           [name |-> "dave", properties |-> ("role" :> "Ghost")]>>

Resources == <<[name |-> DB,
                properties |-> ("path" :> "/data") @@ ("type" :> "database")],
               [name |-> DXB, properties |-> EmptyDict]>>

Policy(type, actions, resource, condition) ==
    [type |-> type, actions |-> actions, resource |-> resource,
     condition |-> condition]

NoCond == <<>>
CondAdmin == <<Attr("user", "role"), Op("=="), Str("Admin")>>
CondEvening == <<Attr("time", "hour"), Op(">"), Num(17)>>
\* unknown namespace under != :  False != "x"
CondUnknownNe == <<Attr("session", "id"), Op("!="), Str("x")>>
\* unknown field under NOT :  not False
CondNotUnknown == <<Kw("NOT"), Attr("user", "clearance")>>
\* unknown field beside OR :  False == "a" or context['device']['trusted']
CondUnknownOr == <<Attr("user", "zzz"), Op("=="), Str("a"), Kw("OR"),
                   Attr("device", "trusted")>>
\* text that is no expression :  context['user']['role'] ==
CondMalformed == <<Attr("user", "role"), Op("==")>>

PolicyUniverse ==
    {Policy("ALLOW", <<"read">>, DB, NoCond),
     Policy("DENY", <<"read">>, DB, NoCond),
     Policy("ALLOW", <<"*">>, <<"*">>, CondAdmin),
     Policy("DENY", <<"delete", "read">>, <<"D", "*">>, CondEvening),
     Policy("ALLOW", <<"read">>, DB, CondUnknownNe),
     Policy("ALLOW", <<"read">>, DB, CondNotUnknown),
     Policy("ALLOW", <<"read">>, <<"D", ".", "B">>, CondUnknownOr),
     Policy("ALLOW", <<"read">>, <<"D", "(">>, NoCond),
     Policy("DENY", <<"read">>, DB, CondMalformed)}

SeqsUpTo(S, n) == UNION {[1..k -> S] : k \in 0..n}

IR(policies) ==
    [shape |-> "dict", roles |-> Roles, users |-> Users,
     resources |-> Resources, policies |-> policies]

IRs == {IR(ps) : ps \in SeqsUpTo(PolicyUniverse, MaxPolicies)}

Usernames == {"alice", "bob", "carol", "dave", "eve"}
Actions == {"read", "delete"}
ResourceNames == {DB, DXB, ZZ}

Group(f) == [null |-> FALSE, f |-> f]
NullGroup == [null |-> TRUE, f |-> EmptyDict]
NoGroup == Group(EmptyDict)

Context(tg, rg, dg, ug) ==
    [time |-> tg, request |-> rg, device |-> dg, user |-> ug]

Contexts ==
    {Context(NoGroup, NoGroup, NoGroup, NoGroup),
     Context(Group("hour" :> VNum(20)), NoGroup, NoGroup, NoGroup),
     Context(NoGroup, NoGroup, Group("trusted" :> VTrue),
             Group("role" :> VStr("Admin"))),
     Context(NullGroup, NoGroup, NoGroup, NoGroup),
     Context(NoGroup, NoGroup, NoGroup, Group("role" :> VStr("Admin")))}

Clock(hour) == [hour |-> hour, minute |-> 0, day |-> "Monday", weekday |-> 0]
Clocks == {Clock(9), Clock(20)}

-----------------------------------------------------------------------------
(* Calls on one engine *)

NoRequest == [op |-> "none"]
NoResult == [kind |-> "none"]
NoProgram == <<>>
NotGenerated == [done |-> FALSE]

\* no compile request is inside clear_and_populate_database; database_updated
\* is what the last compile request put into its response
EndCompile(database_updated) ==
    [pc |-> "idle", database_updated |-> database_updated]

IdleCompile == EndCompile(FALSE)

IdleSwap ==
    /\ db = <<>>
    /\ current_engine = NoEngine
    /\ cpc = IdleCompile
    /\ compiles = 0
    /\ kpc = <<>>
    /\ klocal = <<>>

IdleGen ==
    /\ program = NoProgram
    /\ generated = NotGenerated

\* the module globals of routes.py after import: lex.lex() starts at line 1,
\* SPLParser.__init__ builds its own lexer and has recorded no error
NewLexer == [lineno |-> 1]
NewParser == [lineno |-> 1, errors |-> <<>>]
NoOutput == [stage |-> "none"]
NothingCompiled == [ref |-> NoOutput, last |-> NoOutput, between |-> FALSE]

IdleFront ==
    /\ lexer = NewLexer
    /\ parser = NewParser
    /\ compiled = NothingCompiled

Init ==
    /\ \E ir \in IRs : engine = PolicyEngine(ir)
    /\ engine0 = engine
    /\ request = NoRequest
    /\ result = NoResult
    /\ IdleGen
    /\ IdleSwap
    /\ IdleFront

\* One caller at a time uses the engine of this specification: a call is made
\* when the previous one has been answered
CheckAccess(username, action, resource_name, context, now) ==
    /\ request = NoRequest
    /\ engine' = CheckAccessSelf(engine)
    /\ result' = CheckAccessReturn(engine, username, action, resource_name,
                                  context, now)
    /\ request' = [op |-> "check_access", username |-> username,
                   action |-> action, resource_name |-> resource_name,
                   context |-> context, now |-> now]
    /\ UNCHANGED <<engine0, genVars, swapVars, frontVars>>

GetUserPermissions(username) ==
    /\ request = NoRequest
    /\ engine' = GetUserPermissionsSelf(engine)
    /\ result' = GetUserPermissionsReturn(engine, username)
    /\ request' = [op |-> "get_user_permissions", username |-> username]
    /\ UNCHANGED <<engine0, genVars, swapVars, frontVars>>

\* The caller takes the returned value (or the exception)
Respond ==
    /\ request # NoRequest
    /\ request' = NoRequest
    /\ result' = NoResult
    /\ UNCHANGED <<engine, engine0, genVars, swapVars, frontVars>>

Next ==
    \/ \E u \in Usernames, a \in Actions, r \in ResourceNames,
          c \in Contexts, now \in Clocks : CheckAccess(u, a, r, c, now)
    \/ \E u \in Usernames : GetUserPermissions(u)
    \/ Respond

Spec == Init /\ [][Next]_vars

-----------------------------------------------------------------------------
(* Properties of check_access and get_user_permissions, checked under Spec *)

LastCheck == request.op = "check_access"

\* the user, the resource and the user's role of a request resolve in self
RoleResolves(self, username) ==
    /\ ~RoleMissing(self.users[username])
    /\ self.users[username].properties["role"] \in DOMAIN self.roles

Resolves(self, rq) ==
    /\ UserKnown(self, rq.username)
    /\ ResourceKnown(self, rq.resource_name)
    /\ RoleResolves(self, rq.username)

\* the evaluation context of a request whose user and resource are known
\* and whose user has a role
RequestContext(self, rq) ==
    EvalContext(rq.username, self.users[rq.username].properties["role"],
                rq.resource_name, self.resources[rq.resource_name],
                rq.context, rq.now)

HasContext(self, rq) ==
    /\ UserKnown(self, rq.username)
    /\ ResourceKnown(self, rq.resource_name)
    /\ ~RoleMissing(self.users[rq.username])

\* policy matches the request: resource-spec, action, condition absent or true
PolicyMatches(self, policy, rq) ==
    /\ ~matches_resource_raises(policy.resource, rq.resource_name)
    /\ matches_resource(policy.resource, rq.resource_name)
    /\ matches_action(policy.actions, rq.action)
    /\ HasCondition(policy) =>
          /\ HasContext(self, rq)
          /\ evaluate_condition(policy.condition, RequestContext(self, rq))

MatchingKinds(self, rq) ==
    {self.policies[i].type :
        i \in {j \in 1..Len(self.policies) :
                  PolicyMatches(self, self.policies[j], rq)}}

IsDeny(r) == r.kind = "decision" /\ r.decision = "DENY" /\ r.allowed = FALSE
IsAllow(r) == r.kind = "decision" /\ r.decision = "ALLOW" /\ r.allowed = TRUE

\* C1 (deny-overrides): whenever the user, the resource and the user's role of
\* a check_access request resolve and some matching policy of the engine is a
\* DENY, the call returns the decision DENY with allowed = false.
DenyOverrides ==
    (LastCheck /\ Resolves(engine, request)
       /\ "DENY" \in MatchingKinds(engine, request))
    => IsDeny(result)

\* C2 (default-deny): a check_access request that no policy of the engine
\* matches returns DENY with allowed = false and the reason that no policies
\* matched, and ALLOW is returned only when a matching ALLOW policy exists.
DefaultDeny ==
    LastCheck =>
       /\ MatchingKinds(engine, request) = {} =>
             /\ IsDeny(result)
             /\ result.reason = "No matching policies (default deny)"
       /\ IsAllow(result) => "ALLOW" \in MatchingKinds(engine, request)

\* C3 (fail-closed entity resolution): check_access with a username that is
\* not a user of the IR, or a resource_name that is not a resource of the IR,
\* returns DENY with allowed = false, a reason naming what was not found, an
\* empty matched_policies list, and has looked at no policy.
FailClosedEntityResolution ==
    (LastCheck /\ (~UserKnown(engine, request.username)
                   \/ ~ResourceKnown(engine, request.resource_name)))
    => /\ IsDeny(result)
       /\ result.reason \in {"User not found", "Resource not found"}
       /\ result.matched_policies = <<>>
       /\ result.looked = 0

\* C3 witness: an Admin asks for a resource the IR does not define while the
\* engine holds the wildcard policy ALLOW * ON * IF user.role == "Admin",
\* and is denied with nothing matched.
UnknownResourceUnderWildcard ==
    /\ LastCheck
    /\ request.username = "alice"
    /\ request.resource_name = ZZ
    /\ \E i \in 1..Len(engine.policies) :
          /\ engine.policies[i].type = "ALLOW"
          /\ engine.policies[i].resource = <<"*">>
          /\ matches_resource(engine.policies[i].resource, ZZ)
          /\ matches_action(engine.policies[i].actions, request.action)
    /\ IsDeny(result)
    /\ result.reason = "Resource not found"
    /\ result.matched_policies = <<>>

\* C4 (role resolution is fail-closed): check_access for a known user who has
\* no role, or whose role is not a role of the IR, returns DENY with an empty
\* matched_policies list.
RoleResolutionFailClosed ==
    (LastCheck /\ UserKnown(engine, request.username)
       /\ ~RoleResolves(engine, request.username))
    => /\ IsDeny(result)
       /\ result.matched_policies = <<>>

\* a condition refers to an object.field that the evaluation context lacks
ReferencesUnknown(condition, context) ==
    \E i \in 1..Len(condition) :
        /\ condition[i].k = "attr"
        /\ \/ condition[i].a \notin DOMAIN context
           \/ condition[i].b \notin DOMAIN context[condition[i].a]

\* C5 (unknown-attribute fail-closed): in every check_access that evaluates
\* policies, a condition that refers to an object.field missing from the
\* evaluation context evaluates to false, so its policy is not matched.
UnknownAttributeFailClosed ==
    (LastCheck /\ result.kind = "decision" /\ result.context # NoContext)
    => \A i \in 1..Len(engine.policies) :
          ReferencesUnknown(engine.policies[i].condition, result.context)
          => /\ ~evaluate_condition(engine.policies[i].condition,
                                    result.context)
             /\ MatchedEntry(engine.policies[i])
                   \notin Range(result.matched_policies)

\* C6 (check_access never raises): every check_access call returns a decision
\* carrying allowed, decision and reason.
CheckAccessNeverRaises ==
    LastCheck =>
       /\ result.kind = "decision"
       /\ result.allowed \in BOOLEAN
       /\ result.decision \in {"ALLOW", "DENY"}
       /\ result.reason # ""

\* C7 (engine immutability): after any sequence of check_access and
\* get_user_permissions calls the roles, users and resources indices and the
\* ordered policy list equal their values at construction.
EngineImmutable ==
    /\ engine.roles = engine0.roles
    /\ engine.users = engine0.users
    /\ engine.resources = engine0.resources
    /\ engine.policies = engine0.policies

\* C7 witness: a check_access call has gone through both policies of a
\* two-policy engine and matched one, and the engine holds what it was built with.
EvaluatedAndUnchanged ==
    /\ LastCheck
    /\ result.kind = "decision"
    /\ result.looked = 2
    /\ Len(result.matched_policies) = 1
    /\ Len(engine.policies) = 2
    /\ engine = engine0

\* the entries of the policies that match the request, in the order of
\* self.policies, from position i on
RECURSIVE MatchingFrom(_, _, _)
MatchingFrom(self, rq, i) ==
    IF i > Len(self.policies) THEN <<>>
    ELSE (IF PolicyMatches(self, self.policies[i], rq)
          THEN <<MatchedEntry(self.policies[i])>> ELSE <<>>)
         \o MatchingFrom(self, rq, i + 1)

\* C25 (decision well-formedness): in every decision check_access returns,
\* allowed is true exactly when the decision is ALLOW; and in an ALLOW
\* decision matched_policies holds an ALLOW policy, holds no DENY policy, and
\* is the list of the matching policies in the order of the IR.
DecisionWellFormed ==
    (LastCheck /\ result.kind = "decision") =>
       /\ result.allowed <=> result.decision = "ALLOW"
       /\ result.decision = "ALLOW" =>
             /\ \E m \in 1..Len(result.matched_policies) :
                   result.matched_policies[m].type = "ALLOW"
             /\ \A m \in 1..Len(result.matched_policies) :
                   result.matched_policies[m].type # "DENY"
             /\ result.matched_policies = MatchingFrom(engine, request, 1)

\* an ALLOW decision that lists two different policies
AllowedByTwoPolicies ==
    /\ LastCheck
    /\ IsAllow(result)
    /\ Len(result.matched_policies) = 2
    /\ result.matched_policies[1] # result.matched_policies[2]

\* the two contexts agree on the time, request and device groups and differ
\* in the user group
OnlyIdentityDiffers(c1, c2) ==
    /\ c1.time = c2.time
    /\ c1.request = c2.request
    /\ c1.device = c2.device
    /\ c1.user # c2.user

\* the two calls end alike: the same exception, or decisions with the same
\* decision and the same matched_policies
SameAnswer(r1, r2) ==
    /\ r1.kind = r2.kind
    /\ r1.kind = "raised" => r1.exc = r2.exc
    /\ r1.kind = "decision" =>
          /\ r1.decision = r2.decision
          /\ r1.allowed = r2.allowed
          /\ r1.matched_policies = r2.matched_policies

\* the answer of the engine to the last request made again, at the same
\* time of day, with another context
AnswerAgain(context) ==
    CheckAccessReturn(engine, request.username, request.action,
                      request.resource_name, context, request.now)

\* C26 (identity is not caller-controlled): a second check_access call on the
\* same engine, at the same time of day, with the same username, action and
\* resource and a context that agrees with the first on the time, request
\* and device groups and differs in the user group, has the same decision
\* and matched_policies as the first; in every decision the user.name and
\* user.role of the evaluation context are those of the IR.
IdentityNotCallerControlled ==
    LastCheck =>
       /\ \A context \in Contexts :
             OnlyIdentityDiffers(request.context, context)
             => SameAnswer(result, AnswerAgain(context))
       /\ (result.kind = "decision" /\ result.context # NoContext) =>
             /\ result.context.user.name = VStr(request.username)
             /\ result.context.user.role
                = VStr(engine.users[request.username].properties["role"])

\* a Guest asked with a context that names the role Admin, on an engine that
\* has a policy for Admins, and was not let in by that policy
CallerNamedAnotherRole ==
    /\ LastCheck
    /\ request.username = "bob"
    /\ request.context.user.f # EmptyDict
    /\ result.kind = "decision"
    /\ result.looked > 0
    /\ \E i \in 1..Len(engine.policies) :
          engine.policies[i].condition = CondAdmin
    /\ \A m \in 1..Len(result.matched_policies) :
          result.matched_policies[m].condition # CondAdmin

\* C19 (get_user_permissions is a conservative superset): every policy that
\* a check_access request of a known user matched is among the
\* applicable_policies that get_user_permissions returns for that user.
PermissionsCoverMatches ==
    (LastCheck /\ UserKnown(engine, request.username)
       /\ result.kind = "decision")
    => Range(result.matched_policies)
          \subseteq Range(GetUserPermissionsReturn(engine, request.username)
                              .applicable_policies)

-----------------------------------------------------------------------------
(* PolicyEngine._matches_resource called on its own *)

MaxChars == 3

SpecChars == {"D", "B", ".", "*"}
NameChars == {"D", "B", "."}

ResourceSpecs == SeqsUpTo(SpecChars, MaxChars)
TargetNames == SeqsUpTo(NameChars, MaxChars)

Returned(value) == [kind |-> "returned", value |-> value]

MatchesResourceReturn(policy_resource, target_resource) ==
    IF matches_resource_raises(policy_resource, target_resource)
    THEN Raised("re.error", 0)
    ELSE Returned(matches_resource(policy_resource, target_resource))

InitMatch ==
    /\ engine = NoEngine
    /\ engine0 = NoEngine
    /\ request = NoRequest
    /\ result = NoResult
    /\ IdleGen
    /\ IdleSwap
    /\ IdleFront

MatchesResource(policy_resource, target_resource) ==
    /\ request = NoRequest
    /\ result' = MatchesResourceReturn(policy_resource, target_resource)
    /\ request' = [op |-> "matches_resource",
                   policy_resource |-> policy_resource,
                   target_resource |-> target_resource]
    /\ UNCHANGED <<engine, engine0, genVars, swapVars, frontVars>>

NextMatch ==
    \/ \E policy_resource \in ResourceSpecs, target_resource \in TargetNames :
          MatchesResource(policy_resource, target_resource)
    \/ Respond

SpecMatch == InitMatch /\ [][NextMatch]_vars

\* target[j..] is spec[i..] with each `*` replaced by some run of characters,
\* every other character standing for itself
RECURSIVE Glob(_, _, _, _)
Glob(spec, i, target, j) ==
    IF i > Len(spec) THEN j > Len(target)
    ELSE IF spec[i] = "*"
    THEN \E k \in j..(Len(target) + 1) : Glob(spec, i + 1, target, k)
    ELSE /\ j <= Len(target)
         /\ target[j] = spec[i]
         /\ Glob(spec, i + 1, target, j + 1)

LastMatch == request.op = "matches_resource"

\* C22 (resource matching): _matches_resource returns true exactly when the
\* resource-spec equals the name, or the spec contains `*` and the name is the
\* spec with each `*` replaced by some run of characters, `.` and every other
\* character of the spec matching only itself.
ResourceMatching ==
    LastMatch =>
       /\ result.kind = "returned"
       /\ result.value <=>
             \/ request.policy_resource = request.target_resource
             \/ /\ "*" \in Range(request.policy_resource)
                /\ Glob(request.policy_resource, 1, request.target_resource, 1)

-----------------------------------------------------------------------------
(* AST nodes of compiler/ast_nodes.py, as the parser builds them *)

RoleNode(name, properties, line_number) ==
    [node |-> "Role", name |-> name, properties |-> properties,
     line_number |-> line_number]

UserNode(name, properties, line_number) ==
    [node |-> "User", name |-> name, properties |-> properties,
     line_number |-> line_number]

ResourceNode(name, properties, line_number) ==
    [node |-> "Resource", name |-> name, properties |-> properties,
     line_number |-> line_number]

PolicyNode(policy_type, actions, resource, condition, line_number) ==
    [node |-> "Policy", policy_type |-> policy_type, actions |-> actions,
     resource |-> resource, condition |-> condition,
     line_number |-> line_number]

\* condition=None
None == [node |-> "None"]

BinaryOpNode(operator, left, right, line_number) ==
    [node |-> "BinaryOp", operator |-> operator, left |-> left, right |-> right,
     line_number |-> line_number]

UnaryOpNode(operator, operand, line_number) ==
    [node |-> "UnaryOp", operator |-> operator, operand |-> operand,
     line_number |-> line_number]

AttributeNode(object_name, attribute_name, line_number) ==
    [node |-> "Attribute", object_name |-> object_name,
     attribute_name |-> attribute_name, line_number |-> line_number]

\* a literal; value is a Python value (VStr, VNum, VBool)
LiteralNode(value, line_number) ==
    [node |-> "Literal", value |-> value, line_number |-> line_number]

\* The value of a `can` property: one action_value (a str) or an
\* action_value_list (a list of str)
CanOne(action) == [list |-> FALSE, items |-> <<action>>]
CanList(actions) == [list |-> TRUE, items |-> actions]

-----------------------------------------------------------------------------
(* SemanticAnalyzer of compiler/semantic_analyzer.py *)

VALID_ACTIONS ==
    {"read", "write", "delete", "execute", "create", "update", "list", "*"}

SemanticError(message, subject, line_number, error_type) ==
    [type |-> error_type, message |-> message, subject |-> subject,
     line |-> line_number]

\* the analyzer after __init__: dicts are kept as sequences in insertion order
NewAnalyzer ==
    [roles |-> <<>>, users |-> <<>>, resources |-> <<>>, policies |-> <<>>,
     errors |-> <<>>, warnings |-> <<>>, conflicts |-> <<>>,
     wildcard_permissions |-> <<>>, guest_delete_permissions |-> <<>>,
     overly_permissive_policies |-> <<>>,
     role_references_in_conditions |-> <<>>]

\* a membership test that finds no name
DefinesNothing(nodes, name) == FALSE

\* name in self.roles / self.users / self.resources
Defines(nodes, name) == \E i \in 1..Len(nodes) : nodes[i].name = name

\* the errors for the actions of a `can` value that are not valid actions
RECURSIVE InvalidActionErrors(_, _, _)
InvalidActionErrors(actions, i, node) ==
    IF i > Len(actions) THEN <<>>
    ELSE (IF actions[i] \in VALID_ACTIONS THEN <<>>
          ELSE <<SemanticError("Invalid action in role", actions[i],
                               node.line_number, "ERROR")>>)
         \o InvalidActionErrors(actions, i + 1, node)

HasCan(node) == "can" \in DOMAIN node.properties

\* perms == '*'
IsWildcardCan(node) ==
    /\ HasCan(node)
    /\ ~node.properties["can"].list
    /\ node.properties["can"].items = <<"*">>

visit_RoleNode(sa, node) ==
    IF Defines(sa.roles, node.name)
    THEN [sa EXCEPT !.errors = Append(@,
              SemanticError("Duplicate role definition", node.name,
                            node.line_number, "ERROR"))]
    ELSE [sa EXCEPT
            !.roles = Append(@, node),
            !.errors = @ \o (IF HasCan(node)
                             THEN InvalidActionErrors(
                                      node.properties["can"].items, 1, node)
                             ELSE <<>>),
            !.wildcard_permissions =
                IF IsWildcardCan(node) THEN Append(@, node) ELSE @]

visit_UserNode(sa, node) ==
    IF Defines(sa.users, node.name)
    THEN [sa EXCEPT !.errors = Append(@,
              SemanticError("Duplicate user definition", node.name,
                            node.line_number, "ERROR"))]
    ELSE [sa EXCEPT !.users = Append(@, node)]

visit_ResourceNode(sa, node) ==
    IF Defines(sa.resources, node.name)
    THEN [sa EXCEPT !.errors = Append(@,
              SemanticError("Duplicate resource definition", node.name,
                            node.line_number, "ERROR"))]
    ELSE [sa EXCEPT !.resources = Append(@, node)]

\* visit_AttributeNode: the objects and attributes the analyzer knows
valid_objects ==
    [user |-> {"role", "name", "id", "department", "clearance", "location"},
     time |-> {"hour", "minute", "day", "month", "year", "weekday"},
     request |-> {"ip", "method", "path", "headers", "user_agent"},
     resource |-> {"path", "type", "owner", "sensitivity"},
     device |-> {"type", "id", "os", "browser", "location", "trusted"}]

visit_AttributeNode(node) ==
    IF node.object_name \in DOMAIN valid_objects
    THEN IF node.attribute_name \in valid_objects[node.object_name] THEN <<>>
         ELSE <<SemanticError("Unknown attribute", node.attribute_name,
                              node.line_number, "WARNING")>>
    ELSE <<SemanticError("Unknown object in attribute access",
                         node.object_name, node.line_number, "WARNING")>>

IsUserRole(node) ==
    /\ node.node = "Attribute"
    /\ node.object_name = "user"
    /\ node.attribute_name = "role"

IsStrLiteral(node) == node.node = "Literal" /\ node.value.t = "s"

\* _check_role_comparison: the role names a comparison adds to
\* role_references_in_conditions
check_role_comparison(node) ==
    IF IsUserRole(node.left) /\ IsStrLiteral(node.right)
    THEN <<[role_name |-> node.right.value.s, line |-> node.line_number]>>
    ELSE IF IsUserRole(node.right) /\ IsStrLiteral(node.left)
    THEN <<[role_name |-> node.left.value.s, line |-> node.line_number]>>
    ELSE <<>>

\* The warnings that visiting a condition appends, in visiting order
RECURSIVE ConditionWarnings(_)
ConditionWarnings(node) ==
    CASE node.node = "BinaryOp" ->
            ConditionWarnings(node.left)
            \o ConditionWarnings(node.right)
      [] node.node = "UnaryOp" -> ConditionWarnings(node.operand)
      [] node.node = "Attribute" -> visit_AttributeNode(node)
      [] OTHER -> <<>>

\* The role references that visiting a condition records (visit_BinaryOpNode
\* visits both operands, then looks at its own comparison)
RECURSIVE ConditionRoleReferences(_)
ConditionRoleReferences(node) ==
    CASE node.node = "BinaryOp" ->
            ConditionRoleReferences(node.left)
            \o ConditionRoleReferences(node.right)
            \o (IF node.operator \in {"==", "!="}
                THEN check_role_comparison(node) ELSE <<>>)
      [] node.node = "UnaryOp" ->
            ConditionRoleReferences(node.operand)
      [] OTHER -> <<>>

\* the strings of the model in which str(value).lower() contains 'guest'
GuestStrings == {"Guest"}

\* _condition_allows_guest
RECURSIVE condition_allows_guest(_)
condition_allows_guest(node) ==
    CASE node.node = "BinaryOp" ->
            condition_allows_guest(node.left)
            \/ condition_allows_guest(node.right)
      [] node.node = "Literal" ->
            node.value.t = "s" /\ node.value.s \in GuestStrings
      [] OTHER -> FALSE

\* the strings of the model whose lower case contains 'admin'
AdminStrings == {"Admin"}

\* _is_admin_context: 'admin' occurs in the lower-cased text of the condition
RECURSIVE is_admin_context(_)
is_admin_context(node) ==
    CASE node.node = "BinaryOp" ->
            is_admin_context(node.left) \/ is_admin_context(node.right)
      [] node.node = "UnaryOp" -> is_admin_context(node.operand)
      [] node.node = "Literal" ->
            node.value.t = "s" /\ node.value.s \in AdminStrings
      [] OTHER -> FALSE

Contains(seq, x) == \E i \in 1..Len(seq) : seq[i] = x

\* `is None`, and the truth value of a condition node
IsNone(node) == node.node = "None"

has_sensitive(node) ==
    \E i \in 1..Len(node.actions) :
        node.actions[i] \in {"delete", "execute", "update"}

RECURSIVE UnknownActionWarnings(_, _)
UnknownActionWarnings(node, i) ==
    IF i > Len(node.actions) THEN <<>>
    ELSE (IF node.actions[i] \in VALID_ACTIONS THEN <<>>
          ELSE <<SemanticError("Unknown action in policy", node.actions[i],
                               node.line_number, "WARNING")>>)
         \o UnknownActionWarnings(node, i + 1)

visit_PolicyNode(sa, node) ==
    [sa EXCEPT
       !.policies = Append(@, node),
       !.warnings = @ \o UnknownActionWarnings(node, 1)
                      \o ConditionWarnings(node.condition),
       !.overly_permissive_policies =
           IF has_sensitive(node) /\ IsNone(node.condition)
           THEN Append(@, node) ELSE @,
       !.guest_delete_permissions =
           IF /\ ~IsNone(node.condition)
              /\ condition_allows_guest(node.condition)
              /\ Contains(node.actions, "delete")
           THEN Append(@, node) ELSE @,
       !.role_references_in_conditions =
           @ \o ConditionRoleReferences(node.condition)]

\* ASTVisitor.visit: dispatch on the node's class
visit(sa, node) ==
    CASE node.node = "Role" -> visit_RoleNode(sa, node)
      [] node.node = "User" -> visit_UserNode(sa, node)
      [] node.node = "Resource" -> visit_ResourceNode(sa, node)
      [] OTHER -> visit_PolicyNode(sa, node)

\* _phase_collection
RECURSIVE phase_collection(_, _, _)
phase_collection(sa, statements, i) ==
    IF i > Len(statements) THEN sa
    ELSE phase_collection(visit(sa, statements[i]), statements, i + 1)

\* a validation of users that reports nothing
NoUndefinedRoleErrors(sa, i) == <<>>

\* _phase_validation, users: a role property naming no defined role
RECURSIVE UndefinedUserRoleErrors(_, _)
UndefinedUserRoleErrors(sa, i) ==
    IF i > Len(sa.users) THEN <<>>
    ELSE (IF /\ "role" \in DOMAIN sa.users[i].properties
             /\ ~Defines(sa.roles, sa.users[i].properties["role"])
          THEN <<SemanticError("User references undefined role",
                               sa.users[i].name, sa.users[i].line_number,
                               "ERROR")>>
          ELSE <<>>)
         \o UndefinedUserRoleErrors(sa, i + 1)

\* resource_name.startswith('/'), '*' in resource_name, '.' in resource_name
is_path(resource) == resource # <<>> /\ Head(resource) = "/"
has_wildcard(resource) == Contains(resource, "*")
has_dot(resource) == Contains(resource, ".")

IsPlainIdentifier(resource) ==
    ~(is_path(resource) \/ has_wildcard(resource) \/ has_dot(resource))

\* _phase_validation, policies: a plain identifier naming no defined resource
RECURSIVE UndefinedResourceErrors(_, _)
UndefinedResourceErrors(sa, i) ==
    IF i > Len(sa.policies) THEN <<>>
    ELSE (IF /\ IsPlainIdentifier(sa.policies[i].resource)
             /\ ~Defines(sa.resources, sa.policies[i].resource)
          THEN <<SemanticError("Policy references undefined resource",
                               sa.policies[i].resource,
                               sa.policies[i].line_number, "ERROR")>>
          ELSE <<>>)
         \o UndefinedResourceErrors(sa, i + 1)

PathMatchesNone(sa, resource) ==
    \A j \in 1..Len(sa.resources) :
        Get(sa.resources[j].properties, "path", <<>>) # resource

\* _phase_validation, policies: a path no defined resource has
RECURSIVE UnmatchedPathWarnings(_, _)
UnmatchedPathWarnings(sa, i) ==
    IF i > Len(sa.policies) THEN <<>>
    ELSE (IF /\ ~IsPlainIdentifier(sa.policies[i].resource)
             /\ is_path(sa.policies[i].resource)
             /\ PathMatchesNone(sa, sa.policies[i].resource)
          THEN <<SemanticError("Policy path matches no resource path",
                               sa.policies[i].resource,
                               sa.policies[i].line_number, "WARNING")>>
          ELSE <<>>)
         \o UnmatchedPathWarnings(sa, i + 1)

\* _validate_role_references_in_conditions
RECURSIVE UndefinedConditionRoleErrors(_, _)
UndefinedConditionRoleErrors(sa, i) ==
    IF i > Len(sa.role_references_in_conditions) THEN <<>>
    ELSE (IF ~Defines(sa.roles, sa.role_references_in_conditions[i].role_name)
          THEN <<SemanticError("Condition references undefined role",
                               sa.role_references_in_conditions[i].role_name,
                               sa.role_references_in_conditions[i].line,
                               "ERROR")>>
          ELSE <<>>)
         \o UndefinedConditionRoleErrors(sa, i + 1)

\* The errors of the user loop and of the policy loop interleave only by kind:
\* all user errors, then all policy errors, then all condition-role errors
phase_validation(sa) ==
    [sa EXCEPT
       !.errors = @ \o UndefinedUserRoleErrors(sa, 1)
                    \o UndefinedResourceErrors(sa, 1)
                    \o UndefinedConditionRoleErrors(sa, 1),
       !.warnings = @ \o UnmatchedPathWarnings(sa, 1)]

\* set(policy1.actions) & set(policy2.actions)
common_actions(policy1, policy2) ==
    {policy1.actions[i] : i \in 1..Len(policy1.actions)}
    \cap {policy2.actions[i] : i \in 1..Len(policy2.actions)}

\* _conditions_may_overlap: True on both of its paths
conditions_may_overlap(cond1, cond2) ==
    IF IsNone(cond1) \/ IsNone(cond2) THEN TRUE ELSE TRUE

policies_conflict(policy1, policy2) ==
    IF policy1.resource # policy2.resource THEN FALSE
    ELSE IF common_actions(policy1, policy2) = {} THEN FALSE
    ELSE IF policy1.policy_type # policy2.policy_type
    THEN conditions_may_overlap(policy1.condition, policy2.condition)
    ELSE FALSE

determine_conflict_type(policy1, policy2) ==
    IF policy1.policy_type # policy2.policy_type
    THEN IF Contains(policy1.actions, "delete") \/ Contains(policy2.actions, "delete")
         THEN "PRIVILEGE_ESCALATION"
         ELSE "ALLOW_DENY_CONFLICT"
    ELSE "LOGICAL_CONTRADICTION"

\* PolicyConflict._calculate_risk_score
calculate_risk_score(conflict_type) ==
    CASE conflict_type = "ALLOW_DENY_CONFLICT" -> 85
      [] conflict_type = "PRIVILEGE_ESCALATION" -> 95
      [] conflict_type = "OVERLY_PERMISSIVE" -> 70
      [] conflict_type = "LOGICAL_CONTRADICTION" -> 60
      [] conflict_type = "REDUNDANT_POLICY" -> 20
      [] OTHER -> 50

\* a PolicyConflict; policy1 and policy2 are the positions of the two nodes
\* in self.policies
PolicyConflict(policy1, policy2, conflict_type) ==
    [policy1 |-> policy1, policy2 |-> policy2, type |-> conflict_type,
     risk_score |-> calculate_risk_score(conflict_type)]

\* the keys of resource_policies, in insertion order
RECURSIVE resource_keys(_, _)
resource_keys(policies, i) ==
    IF i > Len(policies) THEN <<>>
    ELSE (IF \E j \in 1..(i - 1) : policies[j].resource = policies[i].resource
          THEN <<>> ELSE <<policies[i].resource>>)
         \o resource_keys(policies, i + 1)

\* resource_policies[resource]: the positions of the policies on it
RECURSIVE resource_policies(_, _, _)
resource_policies(policies, resource, i) ==
    IF i > Len(policies) THEN <<>>
    ELSE (IF policies[i].resource = resource THEN <<i>> ELSE <<>>)
         \o resource_policies(policies, resource, i + 1)

\* the two nested loops over the policies of one resource
RECURSIVE ConflictsAmong(_, _, _, _)
ConflictsAmong(policies, group, a, b) ==
    IF a > Len(group) THEN <<>>
    ELSE IF b > Len(group) THEN ConflictsAmong(policies, group, a + 1, a + 2)
    ELSE (IF policies_conflict(policies[group[a]], policies[group[b]])
          THEN <<PolicyConflict(group[a], group[b],
                     determine_conflict_type(policies[group[a]],
                                             policies[group[b]]))>>
          ELSE <<>>)
         \o ConflictsAmong(policies, group, a, b + 1)

RECURSIVE ConflictsOver(_, _, _)
ConflictsOver(policies, keys, k) ==
    IF k > Len(keys) THEN <<>>
    ELSE ConflictsAmong(policies, resource_policies(policies, keys[k], 1), 1, 2)
         \o ConflictsOver(policies, keys, k + 1)

\* _phase_conflict_detection
phase_conflict_detection(sa) ==
    [sa EXCEPT !.conflicts =
        @ \o ConflictsOver(sa.policies, resource_keys(sa.policies, 1), 1)]

\* one SemanticError per node of a list, with a fixed message and type
RECURSIVE RiskEntries(_, _, _, _)
RiskEntries(nodes, i, message, error_type) ==
    IF i > Len(nodes) THEN <<>>
    ELSE <<SemanticError(message, i, nodes[i].line_number, error_type)>>
         \o RiskEntries(nodes, i + 1, message, error_type)

\* _detect_privilege_escalation
RECURSIVE PrivilegeEscalationWarnings(_, _)
PrivilegeEscalationWarnings(sa, i) ==
    IF i > Len(sa.policies) THEN <<>>
    ELSE (IF /\ sa.policies[i].policy_type = "ALLOW"
             /\ \E k \in 1..Len(sa.policies[i].actions) :
                   sa.policies[i].actions[k] \in {"delete", "execute"}
             /\ ~is_admin_context(sa.policies[i].condition)
          THEN <<SemanticError("Policy grants sensitive actions without admin context",
                               i, sa.policies[i].line_number, "RISK")>>
          ELSE <<>>)
         \o PrivilegeEscalationWarnings(sa, i + 1)

\* _phase_security_analysis: the guest-delete findings go to self.errors
phase_security_analysis(sa) ==
    [sa EXCEPT
       !.warnings = @ \o RiskEntries(sa.wildcard_permissions, 1,
                            "Role has wildcard permissions", "RISK")
                      \o RiskEntries(sa.overly_permissive_policies, 1,
                            "Policy allows multiple sensitive actions without conditions",
                            "RISK")
                      \o PrivilegeEscalationWarnings(sa, 1),
       !.errors = @ \o RiskEntries(sa.guest_delete_permissions, 1,
                          "CRITICAL SECURITY RISK: Policy grants 'delete' to Guest role", "RISK")]

\* analyze(ast) for a non-null ast: the analyzer after the phases
analyze(statements) ==
    phase_security_analysis(
        phase_conflict_detection(
            phase_validation(phase_collection(NewAnalyzer, statements, 1))))

\* get_results()['success']
success(sa) == Len(sa.errors) = 0

-----------------------------------------------------------------------------
(* CodeGenerator of compiler/code_generator.py, target_format 'json' *)

\* str(value) of a literal's value inside LiteralNode.__str__
ValueStr(v) ==
    CASE v.t = "s" -> "\"" \o v.s \o "\""
      [] v.t = "n" -> ToString(v.n)
      [] OTHER -> IF v.n = 1 THEN "True" ELSE "False"

\* __str__ of the condition nodes (ast_nodes.py)
RECURSIVE NodeStr(_)
NodeStr(node) ==
    CASE node.node = "BinaryOp" ->
            "BinaryOp(" \o NodeStr(node.left) \o " " \o node.operator \o " "
            \o NodeStr(node.right) \o ")"
      [] node.node = "UnaryOp" ->
            "UnaryOp(" \o node.operator \o " " \o NodeStr(node.operand) \o ")"
      [] node.node = "Attribute" ->
            node.object_name \o "." \o node.attribute_name
      [] node.node = "Literal" -> ValueStr(node.value)
      [] OTHER -> "None"

\* JSON null
JsonNull == [json |-> "null"]

\* _condition_to_dict
RECURSIVE condition_to_dict(_)
condition_to_dict(condition) ==
    CASE condition.node = "None" -> JsonNull
      [] condition.node = "BinaryOp" ->
            [json |-> "object",
             operator |-> condition.operator,
             left |-> condition_to_dict(condition.left),
             right |-> condition_to_dict(condition.right),
             line_number |-> condition.line_number]
      [] condition.node = "Attribute" ->
            [json |-> "object", type |-> "attribute",
             object |-> condition.object_name,
             attribute |-> condition.attribute_name,
             line_number |-> condition.line_number]
      [] condition.node = "Literal" ->
            [json |-> "object", type |-> "literal", value |-> condition.value,
             line_number |-> condition.line_number]
      [] OTHER -> [json |-> "string", text |-> NodeStr(condition)]

\* node.policy_type.lower()
Lower(policy_type) == IF policy_type = "ALLOW" THEN "allow" ELSE "deny"

\* visit_RoleNode, visit_UserNode, visit_ResourceNode, visit_PolicyNode: the
\* definition appended to self.output
GenerateDef(node) ==
    CASE node.node = "Role" ->
            [type |-> "role", name |-> node.name,
             permissions |-> Get(node.properties, "can", CanList(<<>>)),
             line_number |-> node.line_number]
      [] node.node = "User" ->
            [type |-> "user", name |-> node.name,
             properties |-> node.properties,
             line_number |-> node.line_number]
      [] node.node = "Resource" ->
            [type |-> "resource", name |-> node.name,
             path |-> Get(node.properties, "path", <<>>),
             properties |-> node.properties,
             line_number |-> node.line_number]
      [] OTHER ->
            [type |-> "policy", effect |-> Lower(node.policy_type),
             actions |-> node.actions, resource |-> node.resource,
             condition |-> condition_to_dict(node.condition),
             line_number |-> node.line_number]

\* visit_ProgramNode: self.output after visiting every statement
RECURSIVE GenerateOutput(_, _)
GenerateOutput(statements, i) ==
    IF i > Len(statements) THEN <<>>
    ELSE <<GenerateDef(statements[i])>> \o GenerateOutput(statements, i + 1)

\* _generate_json: the JSON text of self.output, an array of definitions
generate_json(output) == [text |-> "array", items |-> output]

\* generate(ast) for a non-null ast
generate(statements) == generate_json(GenerateOutput(statements, 1))

\* json.loads of a text that json.dumps produced from a list
json_loads(generated_code) ==
    [shape |-> IF generated_code.text = "array" THEN "list" ELSE "dict",
     items |-> generated_code.items]

-----------------------------------------------------------------------------
(* Compiling a program: analysis, code generation, engine construction *)

\* p.lineno(1) in p_policy_rule: symbol 1 is the nonterminal policy_type, and
\* the parser runs without tracking, so the line number it reads is PLY's
\* default for a symbol that carries none
NonterminalLine == 0

\* user.role == "<role_name>" written on one line; the literal is built from
\* the nonterminal `value` (p_expression_value)
UserRoleIs(role_name, line_number) ==
    BinaryOpNode("==", AttributeNode("user", "role", line_number),
                 LiteralNode(VStr(role_name), NonterminalLine), line_number)

\* The statements programs are made of; the statement at position i of a
\* program stands on line i
StatementAt(k, line_number) ==
    CASE k = 1 -> RoleNode("Admin", "can" :> CanOne("*"), line_number)
      [] k = 2 -> RoleNode("Guest", "can" :> CanOne("read"), line_number)
      [] k = 3 -> UserNode("alice", "role" :> "Admin", line_number)
      [] k = 4 -> UserNode("bob", "role" :> "Guest", line_number)
      [] k = 5 -> ResourceNode(DB, "path" :> <<"/", "d">>, line_number)
      [] k = 6 -> PolicyNode("ALLOW", <<"read">>, DB, UserRoleIs("Admin", line_number),
                             NonterminalLine)
      [] k = 7 -> PolicyNode("DENY", <<"delete">>, DB, None, NonterminalLine)
      [] k = 8 -> PolicyNode("ALLOW", <<"read", "delete">>, DB,
                             UnaryOpNode("NOT", UserRoleIs("Guest", line_number),
                                         line_number),
                             NonterminalLine)
      [] k = 9 -> PolicyNode("ALLOW", <<"delete">>, DB, None, NonterminalLine)
      [] k = 10 -> PolicyNode("ALLOW", <<"delete">>, DB, UserRoleIs("Guest", line_number),
                              NonterminalLine)
      [] k = 11 -> PolicyNode("ALLOW", <<"*">>, DB, UserRoleIs("Guest", line_number),
                              NonterminalLine)
      [] k = 12 -> PolicyNode("DENY", <<"read">>, DB, UserRoleIs("Guest", line_number),
                              NonterminalLine)
      [] k = 13 -> RoleNode("Power", "can" :> CanList(<<"read", "*">>), line_number)
      [] OTHER -> PolicyNode("DENY", <<"delete">>, DB, UserRoleIs("Guest", line_number),
                             NonterminalLine)

StatementKinds == 1..14

\* ProgramNode.statements: the grammar's statement_list has at least one
ProgramOf(ks) == [i \in 1..Len(ks) |-> StatementAt(ks[i], i)]

\* the programs, each named by the kinds of its statements
Programs == UNION {[1..n -> StatementKinds] : n \in 1..MaxStatements}

\* the compile request has parsed its source and holds the AST
JustParsed == [done |-> FALSE, stage |-> "parsed"]

InitCompile ==
    /\ \E ks \in Programs : program = ProgramOf(ks)
    /\ generated = JustParsed
    /\ engine = NoEngine
    /\ engine0 = NoEngine
    /\ request = NoRequest
    /\ result = NoResult
    /\ IdleSwap
    /\ IdleFront

\* compile_spl, step 3: semantic analysis of the parsed program
Analyze ==
    /\ generated.stage = "parsed"
    /\ generated' = [done |-> FALSE, stage |-> "analyzed",
                     success |-> success(analyze(program))]
    /\ UNCHANGED <<program, engineVars, swapVars, frontVars>>

\* compile_spl, step 4: reached only when analysis reported success
Generate ==
    /\ generated.stage = "analyzed"
    /\ generated.success
    /\ generated' = [done |-> FALSE, stage |-> "generated",
                     success |-> TRUE,
                     compiled_json |-> json_loads(generate(program))]
    /\ UNCHANGED <<program, engineVars, swapVars, frontVars>>

\* PolicyEngine(compiled_json) on what the generator produced
Load ==
    /\ generated.stage = "generated"
    /\ generated' = [done |-> TRUE, stage |-> "loaded", success |-> TRUE,
                     compiled_json |-> generated.compiled_json,
                     engine |-> IF ConstructorRaises(generated.compiled_json)
                                THEN NoEngine
                                ELSE PolicyEngine(generated.compiled_json)]
    /\ UNCHANGED <<program, engineVars, swapVars, frontVars>>

NextCompile == Analyze \/ Generate \/ Load

SpecCompile == InitCompile /\ [][NextCompile]_vars

-----------------------------------------------------------------------------
(* Properties of the generated IR, checked under SpecCompile *)

Loaded == generated.stage = "loaded"

\* the statements of a class, in declaration order
RECURSIVE StatementsOf(_, _, _)
StatementsOf(statements, class, i) ==
    IF i > Len(statements) THEN <<>>
    ELSE (IF statements[i].node = class THEN <<statements[i]>> ELSE <<>>)
         \o StatementsOf(statements, class, i + 1)

Declared(class) == StatementsOf(program, class, 1)

DeclaredNames(class) == {Declared(class)[i].name : i \in 1..Len(Declared(class))}

\* at least one role and no explicit policy rule
RoleOnly == Declared("Role") # <<>> /\ Declared("Policy") = <<>>

\* the role's can set holds the action, or is *
Grants(role, action) ==
    /\ "can" \in DOMAIN role.properties
    /\ \/ Contains(role.properties["can"].items, action)
       \/ Contains(role.properties["can"].items, "*")

\* the decision of the engine loaded from the generated IR on a request made
\* with an empty context
LoadedDecision(username, action, resource_name) ==
    CheckAccessReturn(generated.engine, username, action, resource_name,
                      Context(NoGroup, NoGroup, NoGroup, NoGroup), Clock(9))

\* C9 (role-only synthesis): for a compiled program with at least one role
\* and no policy rule, the engine loaded from the generated IR ALLOWs every
\* user whose role is R each action of R's can set on every defined resource,
\* and DENYs the actions R's can set lacks.
RoleOnlySynthesis ==
    (Loaded /\ RoleOnly) =>
       /\ generated.engine.built
       /\ \A u \in 1..Len(Declared("User")), r \in 1..Len(Declared("Resource")),
             g \in 1..Len(Declared("Role")), a \in Actions :
             Declared("User")[u].properties["role"] = Declared("Role")[g].name
             => IF Grants(Declared("Role")[g], a)
                THEN IsAllow(LoadedDecision(Declared("User")[u].name, a,
                                            Declared("Resource")[r].name))
                ELSE IsDeny(LoadedDecision(Declared("User")[u].name, a,
                                           Declared("Resource")[r].name))

DeclaredPolicyHeld(held, node) ==
    /\ held.type = node.policy_type
    /\ held.actions = node.actions
    /\ held.resource = node.resource

\* C10 (generator-to-engine contract): for every program that passes
\* analysis, the generated IR has the groups roles, users, resources and
\* policies, and the engine built from it indexes every declared role, user
\* and resource by name and holds exactly the declared policies in
\* declaration order, each with its kind, actions and resource.
GeneratorEngineContract ==
    Loaded =>
       /\ generated.compiled_json.shape = "dict"
       /\ {"roles", "users", "resources", "policies"}
             \subseteq DOMAIN generated.compiled_json
       /\ generated.engine.built
       /\ DOMAIN generated.engine.roles = DeclaredNames("Role")
       /\ DOMAIN generated.engine.users = DeclaredNames("User")
       /\ DOMAIN generated.engine.resources = DeclaredNames("Resource")
       /\ Len(generated.engine.policies) = Len(Declared("Policy"))
       /\ \A i \in 1..Len(Declared("Policy")) :
             DeclaredPolicyHeld(generated.engine.policies[i],
                                Declared("Policy")[i])

-----------------------------------------------------------------------------
(* Properties of semantic analysis, checked under SpecCompile *)

\* the compile request has run analyzer.analyze(ast)
Analyzed == generated.stage # "parsed"

Definitions == {"Role", "User", "Resource"}

\* statement j defines again the name that the earlier statement i defines
Redefines(i, j) ==
    /\ i < j
    /\ program[i].node \in Definitions
    /\ program[j].node = program[i].node
    /\ program[j].name = program[i].name

\* the statement is the first of the program that defines its name
FirstDefinition(i) ==
    /\ program[i].node \in Definitions
    /\ \A h \in 1..(i - 1) : ~Redefines(h, i)

DuplicateMessage(class) ==
    CASE class = "Role" -> "Duplicate role definition"
      [] class = "User" -> "Duplicate user definition"
      [] OTHER -> "Duplicate resource definition"

\* self.roles, self.users or self.resources
Collected(sa, class) ==
    CASE class = "Role" -> sa.roles
      [] class = "User" -> sa.users
      [] OTHER -> sa.resources

\* C12 (duplicate-name detection): when a program defines a role, a user or a
\* resource a second time under the same name, analysis reports an ERROR for
\* the later definition, on its line, success is false, and the definition
\* the analyzer keeps under that name is the first one.
DuplicateNameDetection ==
    Analyzed =>
       \A i, j \in 1..Len(program) :
          Redefines(i, j) =>
             /\ Contains(analyze(program).errors,
                         SemanticError(DuplicateMessage(program[j].node),
                                       program[j].name,
                                       program[j].line_number, "ERROR"))
             /\ ~success(analyze(program))
             /\ ~generated.success
             /\ ~Contains(Collected(analyze(program), program[j].node),
                          program[j])
             /\ FirstDefinition(i)
                => Contains(Collected(analyze(program), program[i].node),
                            program[i])

\* a role defined twice has been analysed
DuplicateRoleAnalyzed ==
    /\ Analyzed
    /\ \E i, j \in 1..Len(program) :
          Redefines(i, j) /\ program[i].node = "Role"

\* the user definition names a role that no statement of the program defines
NamesUndefinedRole(i) ==
    /\ program[i].node = "User"
    /\ "role" \in DOMAIN program[i].properties
    /\ \A r \in 1..Len(program) :
          program[r].node = "Role"
          => program[r].name # program[i].properties["role"]

NamesUndefinedResource(i) ==
    /\ program[i].node = "Policy"
    /\ IsPlainIdentifier(program[i].resource)
    /\ \A r \in 1..Len(program) :
          program[r].node = "Resource"
          => program[r].name # program[i].resource

AboutUndefinedResource(entry, i) ==
    /\ entry.message = "Policy references undefined resource"
    /\ entry.subject = program[i].resource

\* C14 (undefined resource reference is a non-blocking warning): for a policy
\* whose resource is a plain identifier that is not a defined resource,
\* analysis records a WARNING about the reference, and records no error about
\* it, so the reference alone does not make success false.
UndefinedResourceIsWarning ==
    Analyzed =>
       \A i \in 1..Len(program) :
          NamesUndefinedResource(i) =>
             /\ \E w \in 1..Len(analyze(program).warnings) :
                   /\ analyze(program).warnings[w].type = "WARNING"
                   /\ AboutUndefinedResource(analyze(program).warnings[w], i)
             /\ \A e \in 1..Len(analyze(program).errors) :
                   ~AboutUndefinedResource(analyze(program).errors[e], i)

\* The meaning of the conditions of the programs for a user whose role is
\* role_name: user.role compared with a literal, NOT, AND, OR
OperandValue(node, role_name) ==
    IF IsUserRole(node) THEN VStr(role_name)
    ELSE IF node.node = "Literal" THEN node.value
    ELSE VFalse

RECURSIVE HoldsFor(_, _)
HoldsFor(node, role_name) ==
    CASE node.node = "None" -> TRUE
      [] node.node = "UnaryOp" -> ~HoldsFor(node.operand, role_name)
      [] node.node = "BinaryOp" /\ node.operator = "AND" ->
            HoldsFor(node.left, role_name) /\ HoldsFor(node.right, role_name)
      [] node.node = "BinaryOp" /\ node.operator = "OR" ->
            HoldsFor(node.left, role_name) \/ HoldsFor(node.right, role_name)
      [] node.node = "BinaryOp" /\ node.operator = "==" ->
            OperandValue(node.left, role_name) = OperandValue(node.right, role_name)
      [] node.node = "BinaryOp" /\ node.operator = "!=" ->
            OperandValue(node.left, role_name) # OperandValue(node.right, role_name)
      [] OTHER -> FALSE

\* the policy statements, as the analyzer collects them in self.policies
Policies == Declared("Policy")

OppositeKinds(a, b) == Policies[a].policy_type # Policies[b].policy_type

\* two policies on the same resource with a common action and opposite kinds
Contradict(a, b) ==
    /\ a < b
    /\ Policies[a].resource = Policies[b].resource
    /\ Range(Policies[a].actions) \cap Range(Policies[b].actions) # {}
    /\ OppositeKinds(a, b)

DeleteInvolved(a, b) ==
    "delete" \in Range(Policies[a].actions) \cup Range(Policies[b].actions)

\* the conflicts analysis reported for the pair
ConflictsFor(a, b) ==
    {c \in 1..Len(analyze(program).conflicts) :
        /\ analyze(program).conflicts[c].policy1 = a
        /\ analyze(program).conflicts[c].policy2 = b}

\* the policy matches the request under the engine's action and resource
\* matching, and its condition holds for the user making the request
RequestMatches(a, username, action, resource_name) ==
    /\ matches_action(Policies[a].actions, action)
    /\ matches_resource(Policies[a].resource, resource_name)
    /\ \/ IsNone(Policies[a].condition)
       \/ \E u \in 1..Len(Declared("User")) :
             /\ Declared("User")[u].name = username
             /\ HoldsFor(Policies[a].condition,
                         Declared("User")[u].properties["role"])

\* C15 (conflict detection): for every pair of policies on the same resource
\* with at least one common action and opposite kinds, analysis emits exactly
\* one conflict; it is PRIVILEGE_ESCALATION with risk_score 95 when delete is
\* among the actions of the two policies and ALLOW_DENY_CONFLICT with
\* risk_score 85 otherwise; and the engine loaded from the compiled program
\* answers DENY to every request that matches both policies.
ConflictDetection ==
    \A a, b \in 1..Len(Policies) :
       Contradict(a, b) =>
          /\ Analyzed =>
                /\ Cardinality(ConflictsFor(a, b)) = 1
                /\ \A c \in ConflictsFor(a, b) :
                      analyze(program).conflicts[c].type =
                         IF DeleteInvolved(a, b) THEN "PRIVILEGE_ESCALATION"
                         ELSE "ALLOW_DENY_CONFLICT"
                /\ \A c \in ConflictsFor(a, b) :
                      analyze(program).conflicts[c].risk_score =
                         IF DeleteInvolved(a, b) THEN 95 ELSE 85
          /\ Loaded =>
                /\ generated.engine.built
                /\ \A username \in Usernames, action \in Actions,
                      resource_name \in ResourceNames :
                      (/\ RequestMatches(a, username, action, resource_name)
                       /\ RequestMatches(b, username, action, resource_name))
                      => IsDeny(LoadedDecision(username, action, resource_name))

\* some (action, resource name) is matched by both policies under the
\* engine's matching rules
SomeRequestMatchesBoth(a, b) ==
    \E action \in Actions, resource_name \in ResourceNames :
       /\ matches_action(Policies[a].actions, action)
       /\ matches_action(Policies[b].actions, action)
       /\ ~matches_resource_raises(Policies[a].resource, resource_name)
       /\ ~matches_resource_raises(Policies[b].resource, resource_name)
       /\ matches_resource(Policies[a].resource, resource_name)
       /\ matches_resource(Policies[b].resource, resource_name)

\* C16 (no false negatives in conflict detection): for every pair of policies
\* of opposite kinds that some request (action, resource name) matches both of
\* under the engine's action and resource matching, `*` actions and wildcard
\* resource specs included, analysis reports a conflict for the pair.
NoMissedConflict ==
    Analyzed =>
       \A a, b \in 1..Len(Policies) :
          (a < b /\ OppositeKinds(a, b) /\ SomeRequestMatchesBoth(a, b))
          => ConflictsFor(a, b) # {}

\* the program defines a role whose name contains "guest" and the policy's
\* condition holds for a user of that role (a policy without condition holds
\* for every user)
GuestReachable(a) ==
    \E g \in 1..Len(Declared("Role")) :
       /\ Declared("Role")[g].name \in GuestStrings
       /\ HoldsFor(Policies[a].condition, Declared("Role")[g].name)

GrantsDelete(a) ==
    /\ Policies[a].policy_type = "ALLOW"
    /\ matches_action(Policies[a].actions, "delete")

\* C17 (guest-delete is blocking): every ALLOW policy that grants delete,
\* listed or through `*`, and that a role whose name contains "guest" can
\* reach, whatever the shape of its condition, is recorded as a guest-delete
\* finding, the finding is an error of the analysis, and success is false.
GuestDeleteBlocking ==
    Analyzed =>
       \A a \in 1..Len(Policies) :
          (GrantsDelete(a) /\ GuestReachable(a)) =>
             /\ Contains(analyze(program).guest_delete_permissions, Policies[a])
             /\ \E e \in 1..Len(analyze(program).errors) :
                   analyze(program).errors[e].message =
                      "CRITICAL SECURITY RISK: Policy grants 'delete' to Guest role"
             /\ ~success(analyze(program))
             /\ ~generated.success

\* the statement defines a role whose can property is `*` or lists `*`
GrantsWildcard(i) ==
    /\ program[i].node = "Role"
    /\ HasCan(program[i])
    /\ Contains(program[i].properties["can"].items, "*")

WildcardMessage == "Role has wildcard permissions"

\* C21 (wildcard grant risk): for every role of the program whose can
\* property is `*` or a list holding `*`, analysis records a warning of type
\* RISK about the wildcard on the role's line, and records no error for it.
WildcardGrantRisk ==
    Analyzed =>
       \A i \in 1..Len(program) :
          (GrantsWildcard(i) /\ FirstDefinition(i)) =>
             /\ \E w \in 1..Len(analyze(program).warnings) :
                   /\ analyze(program).warnings[w].type = "RISK"
                   /\ analyze(program).warnings[w].message = WildcardMessage
                   /\ analyze(program).warnings[w].line = program[i].line_number
             /\ \A e \in 1..Len(analyze(program).errors) :
                   analyze(program).errors[e].message # WildcardMessage

\* The condition value of a generated policy read as text by
\* _evaluate_condition, which iterates over it character by character.
\* Iterating over a dict gives its keys, so the text is their concatenation;
\* a str is the text itself, here the __str__ of a condition node
RECURSIVE StrTokens(_)
StrTokens(node) ==
    CASE node.node = "BinaryOp" ->
            <<Name("BinaryOp"), LP>> \o StrTokens(node.left)
            \o <<IF node.operator \in {"AND", "OR"} THEN Kw(node.operator)
                 ELSE Op(node.operator)>>
            \o StrTokens(node.right) \o <<RP>>
      [] node.node = "UnaryOp" ->
            <<Name("UnaryOp"), LP, Kw(node.operator)>>
            \o StrTokens(node.operand) \o <<RP>>
      [] node.node = "Attribute" ->
            <<Attr(node.object_name, node.attribute_name)>>
      [] node.node = "Literal" ->
            <<CASE node.value.t = "s" -> Str(node.value.s)
                [] node.value.t = "n" -> Num(node.value.n)
                [] OTHER -> Name(IF node.value.n = 1 THEN "True" ELSE "False")>>
      [] OTHER -> <<Name("None")>>

StoredText(stored, node) ==
    IF stored.json = "object"
    THEN <<Name(IF node.node = "BinaryOp" THEN "operatorleftrightline_number"
                ELSE IF node.node = "Attribute"
                THEN "typeobjectattributeline_number"
                ELSE "typevalueline_number")>>
    ELSE StrTokens(node)

\* the evaluation context check_access builds for a user of the role asking
\* for the resource DB
ContextOfRole(role_name) ==
    EvalContext("alice", role_name, DB, Resources[1],
                Context(NoGroup, NoGroup, NoGroup, NoGroup), Clock(9))

RoleNames == {"Admin", "Guest"}

\* the compile request has generated code
Generated == generated.stage \in {"generated", "loaded"}

HasConditionNode(i) ==
    program[i].node = "Policy" /\ ~IsNone(program[i].condition)

\* C23 (condition round-trip): for every conditioned policy of a program that
\* passed analysis, the condition in the generated IR is a string, and the
\* engine's evaluation of it in the context of any role equals the value of
\* the parsed condition tree for that role.
ConditionRoundTrip ==
    Generated =>
       \A i \in 1..Len(program) :
          HasConditionNode(i) =>
             /\ generated.compiled_json.items[i].condition.json = "string"
             /\ \A role_name \in RoleNames :
                   evaluate_condition(
                       StoredText(generated.compiled_json.items[i].condition,
                                  program[i].condition),
                       ContextOfRole(role_name))
                   = HoldsFor(program[i].condition, role_name)

\* two policies on the same resource with a common action and the same kind
SameKindOverlap(a, b) ==
    /\ a < b
    /\ Policies[a].resource = Policies[b].resource
    /\ Range(Policies[a].actions) \cap Range(Policies[b].actions) # {}
    /\ ~OppositeKinds(a, b)

\* C24 (same-kind overlap is reported): for every pair of policies on the
\* same resource with at least one common action and the same kind, analysis
\* reports a conflict for the pair, of type LOGICAL_CONTRADICTION and with
\* risk_score 60.
SameKindOverlapReported ==
    Analyzed =>
       \A a, b \in 1..Len(Policies) :
          SameKindOverlap(a, b) =>
             \E c \in ConflictsFor(a, b) :
                /\ analyze(program).conflicts[c].type = "LOGICAL_CONTRADICTION"
                /\ analyze(program).conflicts[c].risk_score = 60


GuestDeleteMessage == "CRITICAL SECURITY RISK: Policy grants 'delete' to Guest role"

\* a DENY policy that lists delete and whose condition mentions a guest role
DeniesDeleteToGuest(a) ==
    /\ Policies[a].policy_type = "DENY"
    /\ Contains(Policies[a].actions, "delete")
    /\ condition_allows_guest(Policies[a].condition)

\* an ALLOW policy that lists delete and whose condition mentions a guest role
AllowsDeleteToGuest(a) ==
    /\ Policies[a].policy_type = "ALLOW"
    /\ Contains(Policies[a].actions, "delete")
    /\ condition_allows_guest(Policies[a].condition)

\* C27 (guest-delete error is raised only for grants): a program with a DENY
\* policy on delete whose condition mentions a guest role, and with no ALLOW
\* policy on delete whose condition mentions one, has no guest-delete error
\* among the errors of its analysis.
GuestDeleteOnlyForGrants ==
    (/\ Analyzed
     /\ \E a \in 1..Len(Policies) : DeniesDeleteToGuest(a)
     /\ \A a \in 1..Len(Policies) : ~AllowsDeleteToGuest(a))
    => \A e \in 1..Len(analyze(program).errors) :
          analyze(program).errors[e].message # GuestDeleteMessage


\* the object and attribute names conditions are written with: those the
\* analyzer knows, those of the evaluation context, and an unknown object
ObjectNames == DOMAIN valid_objects \cup {"env"}

AttributeNames ==
    UNION {valid_objects[o] : o \in DOMAIN valid_objects} \cup {"name", "date"}

\* visit_AttributeNode records no warning for object_name.attribute_name
AcceptedAttribute(object_name, attribute_name) ==
    visit_AttributeNode(AttributeNode(object_name, attribute_name, 1)) = <<>>

\* C30 (analyzer and engine agree on attributes): every object.field that
\* visit_AttributeNode accepts without a warning is present in the evaluation
\* context that check_access builds, so that replace_attr does not put False
\* in its place as an unknown attribute.
AnalyzerEngineAgree ==
    (LastCheck /\ result.kind = "decision" /\ result.context # NoContext) =>
       \A object_name \in ObjectNames :
          \A attribute_name \in AttributeNames :
             AcceptedAttribute(object_name, attribute_name) =>
                /\ object_name \in DOMAIN result.context
                /\ attribute_name \in DOMAIN result.context[object_name]

-----------------------------------------------------------------------------
(* The lexer and the parser: compiler/lexer.py and compiler/parser.py *)

\* A source text is a sequence of lines, each ended by a newline.  A line is
\* one whole statement, a stray `)` (a token no statement starts with), or
\* the character `@` (which no token rule matches)
StatementLine(k) == [text |-> "statement", k |-> k]
StrayLine == [text |-> ")", k |-> 0]
IllegalLine == [text |-> "@", k |-> 0]

MaxLines == 2

SourceLines == {StatementLine(2), StrayLine, IllegalLine}

Sources == UNION {[1..n -> SourceLines] : n \in 0..MaxLines}

\* a reset that leaves the line number where the last input ended
resetKeepsLine(self) == self

\* SPLLexer.reset: the line number of the PLY lexer goes back to 1
reset(self) == [self EXCEPT !.lineno = 1]

\* The tokens the PLY lexer hands out for data[i..] when its lineno is
\* `lineno`: t_error skips an illegal character, t_newline counts the line
\* ends, and every token carries the lineno of the moment it was matched.
\* The tokens of one line are kept as one entry
RECURSIVE Tokens(_, _, _)
Tokens(data, i, lineno) ==
    IF i > Len(data) THEN <<>>
    ELSE (IF data[i] = IllegalLine THEN <<>>
          ELSE <<[line |-> data[i], lineno |-> lineno]>>)
         \o Tokens(data, i + 1, lineno + 1)

\* SPLLexer.tokenize: the list returned, and the lexer afterwards
tokenize_return(self, data) == Tokens(data, 1, reset(self).lineno)
tokenize_self(self, data) ==
    [reset(self) EXCEPT !.lineno = @ + Len(data)]

\* p_error: the message appended to self.errors for a token, and for the end
\* of the input (p is None)
p_error(p) ==
    [message |-> "Syntax error: Unexpected token", value |-> p.line.text,
     line |-> p.lineno]
p_error_eof ==
    [message |-> "Syntax error: Unexpected end of file", value |-> "",
     line |-> 0]

\* the statements the grammar rules build from the tokens: p.lineno(1) of a
\* definition is the lineno of its first token
RECURSIVE Statements(_, _)
Statements(tokens, i) ==
    IF i > Len(tokens) THEN <<>>
    ELSE (IF tokens[i].line.text = "statement"
          THEN <<StatementAt(tokens[i].line.k, tokens[i].lineno)>>
          ELSE <<>>)
         \o Statements(tokens, i + 1)

\* the p_error calls for the tokens: p_error calls errok(), so the parser
\* drops the token it cannot shift and goes on
RECURSIVE TokenErrors(_, _)
TokenErrors(tokens, i) ==
    IF i > Len(tokens) THEN <<>>
    ELSE (IF tokens[i].line.text = "statement" THEN <<>>
          ELSE <<p_error(tokens[i])>>)
         \o TokenErrors(tokens, i + 1)

\* self.parser.parse(data, lexer=self.lexer.lexer): lexer.input(data) leaves
\* the lexer's lineno as it is.  A program needs at least one statement: the
\* end of the input before any statement is one more syntax error
ProgramNode(statements) == [node |-> "Program", statements |-> statements]

yacc_errors(data, lineno) ==
    TokenErrors(Tokens(data, 1, lineno), 1)
    \o (IF Statements(Tokens(data, 1, lineno), 1) = <<>>
        THEN <<p_error_eof>> ELSE <<>>)

yacc_parse(data, lineno) ==
    ProgramNode(Statements(Tokens(data, 1, lineno), 1))

\* SPLParser.parse.  Line 275 parses once before the reset; that pass moves
\* the lexer's lineno and appends to self.errors, then lines 279-284 reset
\* the lexer, clear self.errors and parse again
FirstPass(self, data) ==
    [lineno |-> self.lineno + Len(data),
     errors |-> self.errors \o yacc_errors(data, self.lineno)]

\* an assignment that leaves the errors of earlier passes in place
KeepErrors(self) == self

\* line 282: self.errors = []
ClearErrors(self) == [self EXCEPT !.errors = <<>>]

\* lines 279-282
Prepared(self, data) == ClearErrors(reset(FirstPass(self, data)))

parse_self(self, data) ==
    [lineno |-> Prepared(self, data).lineno + Len(data),
     errors |-> Prepared(self, data).errors
                \o yacc_errors(data, Prepared(self, data).lineno)]

parse_return(self, data) ==
    IF parse_self(self, data).errors # <<>> THEN None
    ELSE yacc_parse(data, Prepared(self, data).lineno)

\* compile_spl, lines 336-470: the answer of the route up to the database
\* step.  lexer.build() makes a new PLY lexer for every request
Response(stage, tokens, ast, errors, analysis, generated_code) ==
    [stage |-> stage, success |-> stage = "compiled", tokens |-> tokens,
     ast |-> ast, errors |-> errors, warnings |-> analysis.warnings,
     conflicts |-> analysis.conflicts, generated_code |-> generated_code]

\* an analysis whose errors do not end the request
AnalysisNotBlocking(tokens, ast, analysis, generate_code) ==
    Response("compiled", tokens, ast, <<>>, analysis,
             IF generate_code THEN generate(ast.statements) ELSE JsonNull)

\* lines 414-470: reached with a parsed program
AfterAnalysis(tokens, ast, analysis, generate_code) ==
    IF ~success(analysis)
    THEN Response("semantic_analysis", tokens, ast, analysis.errors, analysis,
                  JsonNull)
    ELSE Response("compiled", tokens, ast, <<>>, analysis,
                  IF generate_code THEN generate(ast.statements)
                  ELSE JsonNull)

\* lines 353-412: a null AST ends the request with the parser's errors
AfterParsing(tokens, ast, errors, generate_code) ==
    IF IsNone(ast)
    THEN Response("parsing", tokens, None, errors, NewAnalyzer, JsonNull)
    ELSE AfterAnalysis(tokens, ast, analyze(ast.statements), generate_code)

compile_response(self, source_code, generate_code) ==
    AfterParsing(tokenize_return(NewLexer, source_code),
                 parse_return(self, source_code),
                 parse_self(self, source_code).errors, generate_code)

-----------------------------------------------------------------------------
(* Compile requests on the shared lexer and parser *)

\* the requests of this specification ask for code generation
Compilation(source_code) ==
    [request |-> [code |-> source_code, generate_code |-> TRUE],
     response |-> compile_response(parser, source_code, TRUE)]

\* `between` tells that a different request was compiled after the one kept
\* as reference
Remember(compilation, keep) ==
    IF keep
    THEN [ref |-> compilation, last |-> compilation, between |-> FALSE]
    ELSE [ref |-> compiled.ref, last |-> compilation,
          between |-> \/ compiled.between
                      \/ /\ compiled.ref # NoOutput
                         /\ compilation.request # compiled.ref.request]

InitFront ==
    /\ IdleFront
    /\ engine = NoEngine
    /\ engine0 = NoEngine
    /\ request = NoRequest
    /\ result = NoResult
    /\ IdleGen
    /\ IdleSwap

\* POST /api/compile, one request at a time
Compile(source_code, keep) ==
    /\ lexer' = tokenize_self(NewLexer, source_code)
    /\ parser' = parse_self(parser, source_code)
    /\ compiled' = Remember(Compilation(source_code), keep)
    /\ UNCHANGED <<engineVars, genVars, swapVars>>

NextFront ==
    \E source_code \in Sources, keep \in BOOLEAN :
        Compile(source_code, keep)

SpecFront == InitFront /\ [][NextFront]_vars

-----------------------------------------------------------------------------
(* Properties of compilation, checked under SpecFront *)

Recompiled ==
    /\ compiled.ref # NoOutput
    /\ compiled.last.request = compiled.ref.request

\* C11 (compilation determinism): compiling the same source text again on the
\* shared lexer and parser, also after a different source (valid or not) was
\* compiled in between, gives the same tokens, the same AST, the same
\* diagnostics and the same IR as the first time.
CompilationDeterminism ==
    Recompiled => compiled.last.response = compiled.ref.response

\* a program compiled to IR, something else compiled, the program compiled again
RecompiledAfterAnother ==
    /\ Recompiled
    /\ compiled.between
    /\ compiled.last.response.stage = "compiled"
    /\ compiled.last.response.generated_code # JsonNull

\* the source holds statements only, and at least one
ValidProgram(source_code) ==
    /\ source_code # <<>>
    /\ \A i \in 1..Len(source_code) : source_code[i].text = "statement"

\* C18 (parser result contract): a parse call returns a null AST if and only
\* if the parser recorded at least one diagnostic for that call, and the
\* diagnostics of earlier calls on the same parser never make the parse of a
\* valid program return null.
ParserResultContract ==
    compiled.last # NoOutput =>
       /\ IsNone(compiled.last.response.ast) <=> parser.errors # <<>>
       /\ ValidProgram(compiled.last.request.code)
          => ~IsNone(compiled.last.response.ast)

\* a valid program parsed on the parser that an earlier request left with
\* syntax errors
ParsedAfterSyntaxErrors ==
    /\ compiled.ref # NoOutput
    /\ compiled.ref.response.stage = "parsing"
    /\ compiled.between
    /\ ValidProgram(compiled.last.request.code)
    /\ ~IsNone(compiled.last.response.ast)

-----------------------------------------------------------------------------
(* The compiled_policies table: DatabaseManager of database/db_manager.py *)

Row(name, version, compiled_json) ==
    [name |-> name, version |-> version, active |-> TRUE,
     compiled_json |-> compiled_json]

NoRow == [found |-> FALSE]

ActiveRows(rows) == {i \in 1..Len(rows) : rows[i].active}

\* the greatest element of a non-empty set of numbers
Max(S) == CHOOSE x \in S : \A y \in S : y <= x

\* get_active_policy(): the active row created last, or None
get_active_policy(rows) ==
    IF ActiveRows(rows) = {} THEN NoRow
    ELSE [found |-> TRUE, row |-> rows[Max(ActiveRows(rows))]]

\* COALESCE(MAX(version), 0) + 1 over the rows of a name
next_version(rows, name) ==
    Max({0} \cup {rows[i].version : i \in {j \in 1..Len(rows) : rows[j].name = name}})
    + 1

\* a save that leaves the earlier versions of the name as they are
save_keeping_active(rows, name, compiled_json) ==
    Append(rows, Row(name, next_version(rows, name), compiled_json))

\* save_compiled_policy, one transaction: the rows of the name are made
\* inactive and the new version is inserted
save_compiled_policy(rows, name, compiled_json) ==
    Append([i \in 1..Len(rows) |->
               IF rows[i].name = name THEN [rows[i] EXCEPT !.active = FALSE]
               ELSE rows[i]],
           Row(name, next_version(rows, name), compiled_json))

-----------------------------------------------------------------------------
(* Engine handling of api/routes.py: compile requests and check-access     *)
(* requests served concurrently by the threaded server                      *)

\* a policy stored in the engine's own format before the server started
SeedIR == IR(<<Policy("ALLOW", <<"read">>, DB, NoCond)>>)
SeedRows == <<Row("seed_policy", 1, SeedIR)>>

\* the source text of a program, one statement a line
SourceOf(ks) == [i \in 1..Len(ks) |-> StatementLine(ks[i])]

\* the sources compile requests submit: one that compiles, one whose user
\* names an undefined role, one with a stray `)` after its statement
SwapSources ==
    {SourceOf(<<2, 4, 5>>), SourceOf(<<4>>), <<StatementLine(2), StrayLine>>}

InitSwap ==
    /\ db \in {<<>>, SeedRows}
    /\ current_engine = NoEngine
    /\ cpc = IdleCompile
    /\ compiles = 0
    /\ kpc = <<>>
    /\ klocal = <<>>
    /\ engine = NoEngine
    /\ engine0 = NoEngine
    /\ request = NoRequest
    /\ result = NoResult
    /\ IdleGen
    /\ IdleFront

\* compile_spl, lines 471-475: `if compiled_json and DB_AVAILABLE`, reached
\* by a request that passed analysis; compiled_json stays None when no code
\* was generated.  The request goes on to clear_and_populate_database or ends
database_step(response, rows) ==
    IF /\ response.stage = "compiled"
       /\ response.generated_code # JsonNull
       /\ json_loads(response.generated_code).items # <<>>
    THEN [pc |-> "clear",
          compiled_json |-> json_loads(response.generated_code),
          replaces |-> get_active_policy(rows).found]
    ELSE IdleCompile

\* compile_spl up to the call of clear_and_populate_database (line 475), on
\* the lexer and the parser the requests share: a source that fails parsing
\* or analysis returns at that stage
CompileSpl(source_code) ==
    /\ cpc.pc = "idle"
    /\ compiles < MaxCompiles
    /\ compiles' = compiles + 1
    /\ lexer' = tokenize_self(NewLexer, source_code)
    /\ parser' = parse_self(parser, source_code)
    /\ compiled' = Remember(Compilation(source_code), compiles = 0)
    /\ cpc' = database_step(Compilation(source_code).response, db)
    /\ UNCHANGED <<db, current_engine, kpc, klocal, engineVars, genVars>>

\* clear_and_populate_database, lines 174-180: DELETE FROM ... and commit
ClearTables ==
    /\ cpc.pc = "clear"
    /\ db' = <<>>
    /\ cpc' = [cpc EXCEPT !.pc = "save"]
    /\ UNCHANGED <<current_engine, compiles, kpc, klocal, engineVars, genVars,
                 frontVars>>

\* clear_and_populate_database, lines 212-217
SavePolicy ==
    /\ cpc.pc = "save"
    /\ db' = save_compiled_policy(db, "auto_compiled_policy", cpc.compiled_json)
    /\ cpc' = [cpc EXCEPT !.pc = "activate"]
    /\ UNCHANGED <<current_engine, compiles, kpc, klocal, engineVars, genVars,
                 frontVars>>

\* the engine that get_policy_engine and force_reload_engine build from a
\* row, the global being left as it is when the constructor raises
EngineFromRow(policy_data, held) ==
    IF ~policy_data.found THEN held
    ELSE IF ConstructorRaises(policy_data.row.compiled_json) THEN held
    ELSE PolicyEngine(policy_data.row.compiled_json)

\* clear_and_populate_database from line 220 on: PolicyEngine(compiled_json),
\* whose exception ends the function with False (lines 230-234), then
\* force_reload_engine, which sets the global to None (line 133) and then to
\* the engine of the active row, and `return True`
Activate ==
    /\ cpc.pc \in {"activate", "reload", "reloaded"}
    /\ current_engine' =
          CASE cpc.pc = "activate" ->
                  IF ConstructorRaises(cpc.compiled_json) THEN current_engine
                  ELSE PolicyEngine(cpc.compiled_json)
            [] cpc.pc = "reload" -> NoEngine
            [] OTHER -> EngineFromRow(get_active_policy(db), current_engine)
    /\ cpc' =
          CASE cpc.pc = "activate" ->
                  IF ConstructorRaises(cpc.compiled_json) THEN IdleCompile
                  ELSE [cpc EXCEPT !.pc = "reload"]
            [] cpc.pc = "reload" -> [cpc EXCEPT !.pc = "reloaded"]
            [] OTHER -> EndCompile(TRUE)
    /\ UNCHANGED <<db, compiles, kpc, klocal, engineVars, genVars,
                 frontVars>>

\* a compile request is replacing an active policy
Replacing == cpc.pc # "idle" /\ cpc.replaces

\* The locals of a check-access request: whether it ran while a compile
\* request was replacing an active policy, the number of compile requests
\* before it, whether it ran after the last of them, the row it read, the
\* engine get_policy_engine returned to it
NewLocals ==
    [during |-> Replacing, compiles |-> compiles, after |-> cpc.pc = "idle",
     policy_data |-> NoRow, engine |-> NoEngine]

Seen(k) ==
    [klocal[k] EXCEPT
       !.during = @ \/ Replacing,
       !.after = @ /\ cpc.pc = "idle" /\ compiles = klocal[k].compiles]

\* the check_access route is entered (routes.py 592-607)
StartCheck ==
    /\ Len(kpc) < MaxChecks
    /\ kpc' = Append(kpc, "get_engine")
    /\ klocal' = Append(klocal, NewLocals)
    /\ UNCHANGED <<db, current_engine, cpc, compiles, engineVars, genVars,
                 frontVars>>

\* get_policy_engine, line 104: `if _current_engine is None`
ReadGlobal(k) ==
    /\ kpc[k] = "get_engine"
    /\ kpc' = [kpc EXCEPT ![k] = IF current_engine = NoEngine
                                 THEN "read_db" ELSE "return"]
    /\ klocal' = [klocal EXCEPT ![k] = Seen(k)]
    /\ UNCHANGED <<db, current_engine, cpc, compiles, engineVars, genVars,
                 frontVars>>

\* get_policy_engine, line 108: database.get_active_policy()
ReadActivePolicy(k) ==
    /\ kpc[k] = "read_db"
    /\ kpc' = [kpc EXCEPT ![k] = IF get_active_policy(db).found
                                 THEN "construct" ELSE "return"]
    /\ klocal' = [klocal EXCEPT ![k] =
                     [Seen(k) EXCEPT !.policy_data = get_active_policy(db)]]
    /\ UNCHANGED <<db, current_engine, cpc, compiles, engineVars, genVars,
                 frontVars>>

\* get_policy_engine, lines 110-111; an exception is caught at line 120
Construct(k) ==
    /\ kpc[k] = "construct"
    /\ current_engine' = EngineFromRow(klocal[k].policy_data, current_engine)
    /\ kpc' = [kpc EXCEPT ![k] = "return"]
    /\ klocal' = [klocal EXCEPT ![k] = Seen(k)]
    /\ UNCHANGED <<db, cpc, compiles, engineVars, genVars,
                 frontVars>>

\* get_policy_engine, line 125: `return _current_engine`, and the route's
\* `if not engine` (608-612): the request is answered by the engine or with
\* 'No active policy loaded'
ReturnEngine(k) ==
    /\ kpc[k] = "return"
    /\ kpc' = [kpc EXCEPT ![k] = "done"]
    /\ klocal' = [klocal EXCEPT ![k] = [Seen(k) EXCEPT !.engine = current_engine]]
    /\ UNCHANGED <<db, current_engine, cpc, compiles, engineVars, genVars,
                 frontVars>>

NextSwap ==
    \/ \E source_code \in SwapSources : CompileSpl(source_code)
    \/ ClearTables
    \/ SavePolicy
    \/ Activate
    \/ StartCheck
    \/ \E k \in 1..Len(kpc) : ReadGlobal(k)
    \/ \E k \in 1..Len(kpc) : ReadActivePolicy(k)
    \/ \E k \in 1..Len(kpc) : Construct(k)
    \/ \E k \in 1..Len(kpc) : ReturnEngine(k)

SpecSwap == InitSwap /\ [][NextSwap]_vars

-----------------------------------------------------------------------------
(* Properties of the engine handling, checked under SpecSwap *)

\* C8 (atomic policy replacement): a check-access request that ran while a
\* compile request was replacing the active policy is answered by an engine,
\* the one built from the old policy or the one built from the new policy; it
\* is never answered with an absent engine.
AtomicPolicyReplacement ==
    \A k \in 1..Len(kpc) :
        (kpc[k] = "done" /\ klocal[k].during)
        => klocal[k].engine.built

\* the request for source_code, handled on the parser `self`, fails parsing
\* (no AST is returned) or semantic analysis (an ERROR is recorded)
FailsParsing(self, source_code) == IsNone(parse_return(self, source_code))

FailsAnalysis(self, source_code) ==
    /\ ~FailsParsing(self, source_code)
    /\ ~success(analyze(parse_return(self, source_code).statements))

\* the step is the handling of a compile request up to the database step
CompileStep == compiles' = compiles + 1

\* C20 (compile is gated): a compile request whose parsing or semantic
\* analysis fails generates no code and does not go on to the clearing and
\* repopulating of the database and the replacement of the active engine;
\* the stored policies and the active engine are what they were before it.
\* Compile requests are handled one after another here, check-access requests
\* running beside them; "fails" is what the parser and the analyzer report.
CompileIsGated ==
    [][(/\ CompileStep
        /\ \/ FailsParsing(parser, compiled'.last.request.code)
           \/ FailsAnalysis(parser, compiled'.last.request.code))
       => /\ compiled'.last.response.stage \in {"parsing", "semantic_analysis"}
          /\ compiled'.last.response.generated_code = JsonNull
          /\ cpc' = IdleCompile
          /\ db' = db
          /\ current_engine' = current_engine]_vars

\* a request that failed parsing and then one that failed analysis have ended
\* while a policy is stored and an engine is active
FailedCompileBesideActiveEngine ==
    /\ compiles = 2
    /\ compiled.ref.response.stage = "parsing"
    /\ compiled.last.response.stage = "semantic_analysis"
    /\ cpc = IdleCompile
    /\ db = SeedRows
    /\ current_engine.built



\* the compile request generated JSON code and went through the database step
StoredCode(compilation) ==
    database_step(compilation.response, <<>>).pc = "clear"

\* the check-access request was made after the last compile request had
\* ended, no compile request has been made since, and that request had
\* generated JSON code and stored it
MadeAfterActivation(k) ==
    /\ kpc[k] = "done"
    /\ klocal[k].after
    /\ klocal[k].compiles > 0
    /\ compiles = klocal[k].compiles
    /\ cpc.pc = "idle"
    /\ StoredCode(compiled.last)

-----------------------------------------------------------------------------
(* Policy versions: save_compiled_policy of database/db_manager.py and the  *)
(* activate and delete routes of api/crud_routes.py, served concurrently    *)

\* the names policies are saved under
PolicyNames == {"auto_compiled_policy", "seed_policy"}

\* create_tables leaves compiled_policies empty; the id of a row (INTEGER
\* PRIMARY KEY AUTOINCREMENT) is its position, no row being deleted here
InitDb ==
    /\ IdleSwap
    /\ IdleGen
    /\ IdleFront
    /\ engine = NoEngine
    /\ engine0 = NoEngine
    /\ request = NoRequest
    /\ result = NoResult

\* db.save_compiled_policy(name, source_code, compiled_json, created_by)
SaveCompiledPolicy(name) ==
    /\ Len(db) < MaxRows
    /\ db' = save_compiled_policy(db, name, SeedIR)
    /\ UNCHANGED <<current_engine, cpc, compiles, kpc, klocal, engineVars,
                 genVars, frontVars>>

\* the row of an id, as `SELECT * FROM compiled_policies WHERE id = ?` and
\* fetchone() give it
SelectPolicy(rows, policy_id) ==
    IF policy_id \in 1..Len(rows)
    THEN [found |-> TRUE, name |-> rows[policy_id].name]
    ELSE NoRow

\* activate_policy and delete_policy up to the 404 answer (crud_routes.py
\* 589-593 and 626-630): the row is read before the updates
FindPolicy(route, policy_id) ==
    /\ Len(kpc) < MaxRequests
    /\ kpc' = Append(kpc, IF SelectPolicy(db, policy_id).found
                          THEN route ELSE "done")
    /\ klocal' = Append(klocal,
                        [policy_id |-> policy_id,
                         policy |-> SelectPolicy(db, policy_id),
                         status |-> IF SelectPolicy(db, policy_id).found
                                    THEN 0 ELSE 404])
    /\ UNCHANGED <<db, current_engine, cpc, compiles, engineVars, genVars,
                 frontVars>>

\* delete_policy, lines 596-606: the row is made inactive, none is deleted
DeletePolicy(k) ==
    /\ kpc[k] = "delete"
    /\ db' = [i \in 1..Len(db) |->
                 IF i = klocal[k].policy_id THEN [db[i] EXCEPT !.active = FALSE]
                 ELSE db[i]]
    /\ kpc' = [kpc EXCEPT ![k] = "done"]
    /\ klocal' = [klocal EXCEPT ![k].status = 200]
    /\ UNCHANGED <<current_engine, cpc, compiles, engineVars, genVars,
                 frontVars>>

\* activate_policy, lines 632-662: the versions of the policy's name are made
\* inactive, the row is made active, commit; the import of set_policy_engine,
\* which api/execution_routes.py does not define, then raises and the route
\* answers 500
ActivatePolicy(k) ==
    /\ kpc[k] = "activate"
    /\ db' = [i \in 1..Len(db) |->
                 IF i = klocal[k].policy_id THEN [db[i] EXCEPT !.active = TRUE]
                 ELSE IF db[i].name = klocal[k].policy.name
                      THEN [db[i] EXCEPT !.active = FALSE]
                 ELSE db[i]]
    /\ kpc' = [kpc EXCEPT ![k] = "done"]
    /\ klocal' = [klocal EXCEPT ![k].status = 500]
    /\ UNCHANGED <<current_engine, cpc, compiles, engineVars, genVars,
                 frontVars>>

NextDb ==
    \/ \E name \in PolicyNames : SaveCompiledPolicy(name)
    \/ \E policy_id \in 1..MaxRows : FindPolicy("activate", policy_id)
    \/ \E policy_id \in 1..MaxRows : FindPolicy("delete", policy_id)
    \/ \E k \in 1..Len(kpc) : DeletePolicy(k)
    \/ \E k \in 1..Len(kpc) : ActivatePolicy(k)

SpecDb == InitDb /\ [][NextDb]_vars

-----------------------------------------------------------------------------
(* Properties of the policy versions, checked under SpecDb *)

\* the ids of the active rows of a name, and the versions of its rows
ActiveIds(rows, name) ==
    {i \in 1..Len(rows) : rows[i].name = name /\ rows[i].active}

Versions(rows, name) ==
    {rows[i].version : i \in {j \in 1..Len(rows) : rows[j].name = name}}

\* the step is a save_compiled_policy call
SaveStep == Len(db') = Len(db) + 1

\* C29 (single active version): after any sequence of save_compiled_policy,
\* activate_policy and delete_policy operations at most one stored row of a
\* policy name is active, and immediately after save_compiled_policy(name,
\* ...) the active row of the name is the one just saved, its version one
\* greater than the greatest version the name had (1 for a new name).
SingleActiveVersion ==
    /\ [](\A name \in PolicyNames : Cardinality(ActiveIds(db, name)) <= 1)
    /\ [][SaveStep =>
            /\ ActiveIds(db', db'[Len(db')].name) = {Len(db')}
            /\ db'[Len(db')].version
               = Max({0} \cup Versions(db, db'[Len(db')].name)) + 1]_vars

\* an older version of a policy is the active one after an activate request,
\* beside a policy that a delete request left without an active version
OlderVersionActivated ==
    \E name, other \in PolicyNames :
       /\ \E i \in ActiveIds(db, name) :
             db[i].version < Max(Versions(db, name))
       /\ Versions(db, other) # {}
       /\ ActiveIds(db, other) = {}
       /\ \E k \in 1..Len(kpc) : kpc[k] = "done" /\ klocal[k].status = 200

====
